---- MODULE Spec2Model ----
(***************************************************************************)
(* A model of the submission fetch-and-stage engine of clang-grader        *)
(* (src/docker/grade_fetcher):                                             *)
(*   - GitHubClient._get, the retry/backoff loop          (SpecGet)        *)
(*   - GitHubClient.get_commit_before, the paginated walk (SpecCommit)     *)
(*   - FetchService.run_for_map / _resolve_ref / _stage_student together   *)
(*     with the staging helpers of staging.py             (Spec)           *)
(***************************************************************************)
EXTENDS Integers, Sequences, FiniteSets, TLC

None == "None"

Max(a, b) == IF a >= b THEN a ELSE b

Min(a, b) == IF a <= b THEN a ELSE b

(***************************************************************************)
(* Bounds of the model                                                     *)
(***************************************************************************)
\* the clock value (epoch seconds) at which a call of _get starts
StartNow == 10
\* the longest time one HTTP request takes, in seconds
MaxLatency == 1
\* the largest committer timestamp / cutoff instant
MaxTs == 3
\* the largest number of commits on one page of the commit history
MaxPageLen == 2
\* the largest number of pages of the commit history
MaxPages == 3
\* the number of roster entries of one run
NStudents == 2
\* the largest number of write_json_merge calls on one sidecar
MaxWrites == 3

\* longest text given to encode_path_preserving_segments
MaxTextLen == 5

(***************************************************************************)
(* Program constants                                                       *)
(***************************************************************************)
\* max_tries: int = 6
MaxTries == 6
\* backoff = 1.0
InitialBackoff == 1
\* backoff = min(backoff * 2, 60)
BackoffCap == 60

VARIABLES
    \* ---- GitHubClient._get ----
    g_pc,        \* "loop" | "done"
    attempt,     \* the for loop's variable, 1 .. max_tries + 1
    backoff,     \* the local variable backoff
    now,         \* the wall clock, time.time()
    requests,    \* number of self.s.get calls made so far
    nSleeps,     \* number of time.sleep calls made so far
    lastSleep,   \* argument of the latest time.sleep call
    lastBackoff, \* value of backoff when the latest sleep was computed
    lastStatus,  \* status code of the latest response (0: none yet)
    lastReset,   \* X-RateLimit-Reset header of the latest 403/429 response
    lastNow,     \* int(time.time()) as read for the latest 403/429 response
    g_result,    \* "none" | "ok" | "error" | "exhausted" | "idle"
    \* ---- GitHubClient.get_commit_before ----
    c_pc,        \* "request" | "done" | "idle"
    cutoff,      \* limit_dt, a UTC instant
    page,        \* commits of the page requested last: resp.json()
    hasNext,     \* "next" in resp.links, for the page requested last
    pageNo,      \* number of pages requested so far
    earlierQual, \* history: a commit of an earlier page was at or before the cutoff
    c_result,    \* [kind: "pending" | "none" | "sha" | "error" | "idle", sha]
    \* ---- FetchService.run_for_map: the run ----
    cfg,            \* Config: limit (limit_dt is not None), scope, force_rename,
                    \* keep_original, preserve_subdirs
    pc,             \* position in run_for_map / _stage_student
    idx,            \* position of the for loop in the roster, 1 .. NStudents + 1
    staged_students,\* the counter of run_for_map
    reported,       \* the count printed by the summary line, -1 before it
    \* ---- the student being processed ----
    entry,          \* the roster entry: id, url, and the repository behind the url
    ref,            \* RepoRef parsed from the url: branch (or None) and path
    branch,         \* the local variable branch of _resolve_ref
    sha,            \* the resolved commit, None when there is none
    rep_meta,       \* result of get_contents_meta: None | "file" | "dir"
    rep_saved,      \* local variable of _stage_student
    skip_paths,     \* local variable of _stage_student
    dir_scope,      \* dir_scope_prefix: [set (is not None), prefix]
    paths,          \* the enumerated .c/.h paths
    k,              \* position of the for loop over paths
    staged_count,   \* local variable of _stage_student
    ok,             \* result of _stage_student: "none" | "true" | "false"
    \* ---- the student's staging directory ----
    files,          \* the files under the staging root: [path, src, main]
    meta,           \* .submission_meta.json, a function from keys to values
    hint,           \* .main_filename: [present, path]
    \* ---- history of the student being processed ----
    calls,          \* the remote calls issued for this student
    cause,          \* the remote call or check that failed at the resolution stage
    recorded,       \* the statuses passed to record_failure, in order
    hintWrites,     \* number of write_main_hint calls
    attempted,      \* the enumerated paths whose fetch was issued, in order
    failed,         \* the enumerated paths whose fetch failed
    loopWrites,     \* number of safe_write calls of the loop over paths
    repCopies,      \* number of copies of the representative saved as rename_to
    \* ---- history of the run ----
    eligible,       \* roster entries read so far that have an id and a url
    skipped,        \* roster entries read so far that lack an id or a url
    finished,       \* students whose processing ended
    okReturns,      \* number of times _stage_student returned True
    \* ---- the same student, staged from an empty directory ----
    t_files,        \* the files under the staging root
    t_meta,         \* .submission_meta.json
    t_hint,         \* .main_filename
    \* ---- the same student, processed by main of fetch_and_stage.py ----
    l_meta,         \* .submission_meta.json
    l_hint,         \* .main_filename
    l_paths,        \* the enumerated .c/.h paths
    \* ---- pick_main_from_staged, called on its own ----
    p_pc,        \* "call" | "done" | "idle"
    p_fs,        \* the files under student_root: [path, src, main]
    p_scope,     \* the argument scope_prefix
    p_staged,    \* the argument staged_paths
    p_result,    \* the value returned: [found, path]
    \* ---- write_json_merge, called on its own ----
    m_pc,        \* "write" | "idle"
    m_initial,   \* the content of the file before the first call
    sidecar,     \* the content of the file
    log,         \* history: the patches written, in order
    \* ---- encode_path_preserving_segments, called on its own ----
    e_pc,        \* "call" | "done" | "idle"
    e_in,        \* the text the path arrives as
    e_form,      \* how it arrives: "listed" | "parsed" | "encoded" | "partial"
    e_text,      \* the path as real text
    e_arg,       \* the argument path
    e_sent,      \* the value returned, put into the url of the request
    \* ---- collect_sources_with_single_main, called on its own ----
    s_pc,        \* "call" | "done" | "idle"
    s_dir,       \* the files under src_dir: [path, main]
    s_main,      \* the argument main_filename
    s_recursive, \* the argument recursive
    s_reverse,   \* the order in which the file system lists the entries
    selected,    \* the value returned
    \* ---- parse_repo_url, called on its own ----
    u_pc,        \* "call" | "done" | "idle"
    u_shape,     \* the shape the text is a writing of, or "other"
    u_in,        \* the argument url
    parsed       \* the value returned, or the error raised

getVars == <<g_pc, attempt, backoff, now, requests, nSleeps, lastSleep, lastBackoff,
             lastStatus, lastReset, lastNow, g_result>>

commitVars == <<c_pc, cutoff, page, hasNext, pageNo, earlierQual, c_result>>

runVars == <<cfg, pc, idx, staged_students, reported, eligible, skipped, finished,
            okReturns>>

stuVars == <<entry, ref, branch, sha, rep_meta, rep_saved, skip_paths, dir_scope, paths, k,
             staged_count, ok>>

diskVars == <<files, meta, hint>>

histVars == <<calls, cause, recorded, hintWrites, attempted, failed, loopWrites,
             repCopies>>

shadowVars == <<t_files, t_meta, t_hint, l_meta, l_hint, l_paths>>

mainVars == <<runVars, stuVars, diskVars, histVars, shadowVars>>

pickVars == <<p_pc, p_fs, p_scope, p_staged, p_result>>

mergeVars == <<m_pc, m_initial, sidecar, log>>

encodeVars == <<e_pc, e_in, e_form, e_text, e_arg, e_sent>>

collectVars == <<s_pc, s_dir, s_main, s_recursive, s_reverse, selected>>

parseVars == <<u_pc, u_shape, u_in, parsed>>

moreVars == <<encodeVars, collectVars, parseVars>>

pureVars == <<pickVars, mergeVars, moreVars>>

vars == <<getVars, commitVars, mainVars, pureVars>>

(***************************************************************************)
(* GitHubClient._get                                                       *)
(***************************************************************************)
\* The statuses a server answers with besides 200: the two rate-limit
\* statuses and two other failures.
NonOkStatuses == {403, 429, 404, 500}

\* The X-RateLimit-Reset header: absent, a text that is not all digits, or an
\* epoch given in digits.  The offsets are relative to the clock at the response.
ResetOffsets == {-2, 0, 5}

NoHeader == [kind |-> "absent", val |-> 0]

TextHeader == [kind |-> "text", val |-> 0]

DigitHeader(v) == [kind |-> "digits", val |-> v]

Headers(t) == {NoHeader, TextHeader} \cup {DigitHeader(t + d) : d \in ResetOffsets}

\* line 41: reset and reset.isdigit()
HasResetHint(reset) == reset.kind = "digits"

SleepForBackoffOnly(reset, t, bo) == bo

\* lines 40-44: the sleep after a rate-limited response
SleepFor(reset, t, bo) ==
    IF HasResetHint(reset) THEN Max(0, reset.val - t + 1) ELSE bo

NextBackoffUncapped(bo) == bo * 2

\* line 47
NextBackoff(bo) == Min(bo * 2, BackoffCap)

IsRetriableAnyError(status) == status # 200

\* line 39
IsRetriable(status) == status \in {403, 429}

\* the variables of _get while another operation is modelled
GetIdle ==
    /\ g_pc = "idle"
    /\ attempt = 0
    /\ backoff = 0
    /\ now = 0
    /\ requests = 0
    /\ nSleeps = 0
    /\ lastSleep = 0
    /\ lastBackoff = 0
    /\ lastStatus = 0
    /\ lastReset = NoHeader
    /\ lastNow = 0
    /\ g_result = "idle"

GetInit ==
    /\ g_pc = "loop"
    /\ attempt = 1
    /\ backoff = InitialBackoff
    /\ now = StartNow
    /\ requests = 0
    /\ nSleeps = 0
    /\ lastSleep = 0
    /\ lastBackoff = 0
    /\ lastStatus = 0
    /\ lastReset = NoHeader
    /\ lastNow = StartNow
    /\ g_result = "none"

\* line 31: self.s.get raises (connection error, timeout); the exception leaves _get
GetNetworkError ==
    /\ g_pc = "loop"
    /\ attempt <= MaxTries
    /\ \E lat \in 0..MaxLatency : now' = now + lat
    /\ requests' = requests + 1
    /\ g_result' = "error"
    /\ g_pc' = "done"
    /\ UNCHANGED <<attempt, backoff, nSleeps, lastSleep, lastBackoff, lastStatus,
                   lastReset, lastNow>>

\* lines 31-38: a 200 response is returned
GetOk ==
    /\ g_pc = "loop"
    /\ attempt <= MaxTries
    /\ \E lat \in 0..MaxLatency : now' = now + lat
    /\ requests' = requests + 1
    /\ lastStatus' = 200
    /\ g_result' = "ok"
    /\ g_pc' = "done"
    /\ UNCHANGED <<attempt, backoff, nSleeps, lastSleep, lastBackoff, lastReset, lastNow>>

\* lines 39-48: a 403 or 429: sleep, double the backoff, next attempt
GetRateLimited ==
    /\ g_pc = "loop"
    /\ attempt <= MaxTries
    /\ \E lat \in 0..MaxLatency, status \in NonOkStatuses :
         \E reset \in Headers(now + lat) :
            /\ IsRetriable(status)
            /\ lastStatus' = status
            /\ lastReset' = reset
            /\ lastNow' = now + lat
            /\ lastSleep' = SleepFor(reset, now + lat, backoff)
            /\ now' = now + lat + SleepFor(reset, now + lat, backoff)
    /\ requests' = requests + 1
    /\ nSleeps' = nSleeps + 1
    /\ lastBackoff' = backoff
    /\ backoff' = NextBackoff(backoff)
    /\ attempt' = attempt + 1
    /\ UNCHANGED <<g_pc, g_result>>

\* lines 49-50: any other status raises at once
GetOtherStatus ==
    /\ g_pc = "loop"
    /\ attempt <= MaxTries
    /\ \E lat \in 0..MaxLatency, status \in NonOkStatuses :
            /\ ~IsRetriable(status)
            /\ lastStatus' = status
            /\ now' = now + lat
    /\ requests' = requests + 1
    /\ g_result' = "error"
    /\ g_pc' = "done"
    /\ UNCHANGED <<attempt, backoff, nSleeps, lastSleep, lastBackoff, lastReset, lastNow>>

\* line 51: the for loop ran out of attempts
GetExhausted ==
    /\ g_pc = "loop"
    /\ attempt > MaxTries
    /\ g_result' = "exhausted"
    /\ g_pc' = "done"
    /\ UNCHANGED <<attempt, backoff, now, requests, nSleeps, lastSleep, lastBackoff,
                   lastStatus, lastReset, lastNow>>

(***************************************************************************)
(* GitHubClient.get_commit_before                                          *)
(***************************************************************************)
\* UTC offsets (in the time unit of the model) a committer date may carry
Offsets == {0, 1}

\* A commit of the history: its id and its committer date as written, a
\* local time with a UTC offset.  The id names the page and the position.
Commit(pg, i, local, off) == [sha |-> <<pg, i>>, local |-> local, off |-> off]

Dates == (0..MaxTs) \X Offsets

\* the pages the server may answer with for page number pg
Pages(pg) ==
    UNION {{[i \in 1..n |-> Commit(pg, i, ds[i][1], ds[i][2])] : ds \in [1..n -> Dates]}
           : n \in 0..MaxPageLen}

\* line 75: datetime.fromisoformat(...).astimezone(timezone.utc)
ToUtc(c) == c.local - c.off

QualifiesStrictlyBefore(c, limit) == ToUtc(c) < limit

\* line 76: dt <= limit_dt
Qualifies(c, limit) == ToUtc(c) <= limit

\* lines 73-77: the for loop over a page; the index of the commit returned, 0 if none
RECURSIVE ScanFrom(_, _, _)
ScanFrom(commits, i, limit) ==
    IF i > Len(commits) THEN 0
    ELSE IF Qualifies(commits[i], limit) THEN i
    ELSE ScanFrom(commits, i + 1, limit)

ScanPage(commits, limit) == ScanFrom(commits, 1, limit)

\* the value get_commit_before ends with when it returns no sha
NoSha(kind) == [kind |-> kind, sha |-> <<0, 0>>]

\* history: whether the page left behind held a commit at or before the cutoff
LeftBehind == earlierQual \/ \E i \in 1..Len(page) : page[i].local - page[i].off <= cutoff

CommitIdle ==
    /\ c_pc = "idle"
    /\ cutoff = 0
    /\ page = <<>>
    /\ hasNext = FALSE
    /\ pageNo = 0
    /\ earlierQual = FALSE
    /\ c_result = NoSha("idle")

\* lines 65-67
CommitInit ==
    /\ c_pc = "request"
    /\ cutoff \in 0..MaxTs
    /\ page = <<>>
    /\ hasNext = FALSE
    /\ pageNo = 0
    /\ earlierQual = FALSE
    /\ c_result = NoSha("pending")

\* line 69: _get raises
CommitRequestFails ==
    /\ c_pc = "request"
    /\ pageNo < MaxPages
    /\ pageNo' = pageNo + 1
    /\ earlierQual' = LeftBehind
    /\ page' = <<>>
    /\ hasNext' = FALSE
    /\ c_result' = NoSha("error")
    /\ c_pc' = "done"
    /\ UNCHANGED cutoff

\* lines 69-72: the page is empty
CommitEmptyPage ==
    /\ c_pc = "request"
    /\ pageNo < MaxPages
    /\ pageNo' = pageNo + 1
    /\ earlierQual' = LeftBehind
    /\ page' = <<>>
    /\ hasNext' \in BOOLEAN
    /\ c_result' = NoSha("none")
    /\ c_pc' = "done"
    /\ UNCHANGED cutoff

\* lines 69-77: the page holds a qualifying commit
CommitFound ==
    /\ c_pc = "request"
    /\ pageNo < MaxPages
    /\ \E p \in Pages(pageNo + 1) :
         /\ p # <<>>
         /\ ScanPage(p, cutoff) # 0
         /\ page' = p
         /\ c_result' = [kind |-> "sha", sha |-> p[ScanPage(p, cutoff)].sha]
    /\ hasNext' \in BOOLEAN
    /\ pageNo' = pageNo + 1
    /\ earlierQual' = LeftBehind
    /\ c_pc' = "done"
    /\ UNCHANGED cutoff

\* lines 78-81: no qualifying commit on the page, a next link: follow it
CommitFollowNext ==
    /\ c_pc = "request"
    /\ pageNo + 1 < MaxPages
    /\ \E p \in Pages(pageNo + 1) :
         /\ p # <<>>
         /\ ScanPage(p, cutoff) = 0
         /\ page' = p
    /\ hasNext' = TRUE
    /\ pageNo' = pageNo + 1
    /\ earlierQual' = LeftBehind
    /\ UNCHANGED <<c_pc, c_result, cutoff>>

\* line 82: no qualifying commit on the page, no next link
CommitNoMorePages ==
    /\ c_pc = "request"
    /\ pageNo < MaxPages
    /\ \E p \in Pages(pageNo + 1) :
         /\ p # <<>>
         /\ ScanPage(p, cutoff) = 0
         /\ page' = p
    /\ hasNext' = FALSE
    /\ pageNo' = pageNo + 1
    /\ earlierQual' = LeftBehind
    /\ c_result' = NoSha("none")
    /\ c_pc' = "done"
    /\ UNCHANGED cutoff

(***************************************************************************)
(* Paths, repositories and roster entries                                  *)
(*                                                                         *)
(* A path is a sequence of tokens: "/" and pieces of names; the last token *)
(* of a file's path is its extension.  A prefix of the text of a path is a *)
(* prefix of its tokens.                                                   *)
(***************************************************************************)
NoPath == <<>>

\* str.lower() of one token
Lower(tok) == IF tok = ".C" THEN ".c" ELSE IF tok = ".H" THEN ".h" ELSE tok

\* p.lower().endswith(ext) for one of the extensions exts
EndsWithExt(p, exts) == p # <<>> /\ Lower(p[Len(p)]) \in exts

\* position of the last "/" of p, 0 when there is none
LastSlash(p) ==
    IF \E i \in 1..Len(p) : p[i] = "/"
    THEN CHOOSE i \in 1..Len(p) : p[i] = "/" /\ \A j \in (i + 1)..Len(p) : p[j] # "/"
    ELSE 0

\* os.path.basename
Basename(p) == SubSeq(p, LastSlash(p) + 1, Len(p))

\* os.path.dirname
Dirname(p) == IF LastSlash(p) = 0 THEN <<>> ELSE SubSeq(p, 1, LastSlash(p) - 1)

\* str.startswith
StartsWith(p, q) == Len(q) <= Len(p) /\ SubSeq(p, 1, Len(q)) = q

\* str.rstrip("/")
RECURSIVE RStripSlash(_)
RStripSlash(p) ==
    IF p # <<>> /\ p[Len(p)] = "/" THEN RStripSlash(SubSeq(p, 1, Len(p) - 1)) ELSE p

\* str.lstrip("/")
RECURSIVE LStripSlash(_)
LStripSlash(p) ==
    IF p # <<>> /\ p[1] = "/" THEN LStripSlash(Tail(p)) ELSE p

\* str.strip("/")
StripSlash(p) == LStripSlash(RStripSlash(p))

\* Config.rename_to, "main.c"
RenameTo == <<"main", ".c">>

\* a tree entry of a repository at the resolved commit; main: the content
\* holds a definition of int main
Blob(p, m) == [path |-> p, type |-> "blob", main |-> m]

Dir(p) == [path |-> p, type |-> "tree", main |-> FALSE]

\* src/main.c without a main function beside src/util.c with one, and a sibling src2
RepoLayered ==
    << Dir(<<"src">>),
       Blob(<<"src", "/", "main", ".c">>, FALSE),
       Blob(<<"src", "/", "util", ".c">>, TRUE),
       Blob(<<"src", "/", "util", ".h">>, FALSE),
       Dir(<<"src", "2">>),
       Blob(<<"src", "2", "/", "x", ".c">>, TRUE),
       Blob(<<"README", ".md">>, FALSE) >>

\* one .c with a main function, and a text file that holds a program
RepoSingle ==
    << Dir(<<"app">>),
       Blob(<<"app", "/", "prog", ".c">>, TRUE),
       Blob(<<"app", "/", "lib", ".c">>, FALSE),
       Blob(<<"notes", ".txt">>, TRUE) >>

\* two files with a main function
RepoTwoMains ==
    << Blob(<<"a", ".c">>, TRUE),
       Blob(<<"b", ".C">>, TRUE) >>

\* no source file at all
RepoNoSources ==
    << Blob(<<"README", ".md">>, FALSE) >>

Tree(repo) ==
    CASE repo = "layered" -> RepoLayered
      [] repo = "single" -> RepoSingle
      [] repo = "twomains" -> RepoTwoMains
      [] OTHER -> RepoNoSources

\* A submission url, by the shape parse_repo_url finds in it: "bad" (no shape
\* matches), "root" (bare repository), "tree", "blob"
Url(shape, p) == [shape |-> shape, path |-> p]

RosterEntry(hasId, hasUrl, url, repo) ==
    [hasId |-> hasId, hasUrl |-> hasUrl, url |-> url, repo |-> repo]

Submissions ==
    { RosterEntry(TRUE, TRUE, Url("bad", NoPath), "nosources"),
      RosterEntry(TRUE, TRUE, Url("root", NoPath), "layered"),
      RosterEntry(TRUE, TRUE, Url("tree", <<"src", "/">>), "layered"),
      RosterEntry(TRUE, TRUE, Url("blob", <<"src", "/", "main", ".c">>), "layered"),
      RosterEntry(TRUE, TRUE, Url("blob", <<"src", "/", "util", ".h">>), "layered"),
      RosterEntry(TRUE, TRUE, Url("blob", <<"app", "/", "prog", ".c">>), "single"),
      RosterEntry(TRUE, TRUE, Url("blob", <<"notes", ".txt">>), "single"),
      RosterEntry(TRUE, TRUE, Url("tree", <<"app">>), "single"),
      RosterEntry(TRUE, TRUE, Url("root", NoPath), "twomains"),
      RosterEntry(TRUE, TRUE, Url("root", NoPath), "nosources"),
      RosterEntry(TRUE, TRUE, Url("blob", <<"README", ".md">>), "nosources"),
      RosterEntry(TRUE, TRUE, Url("blob", <<"gone", ".c">>), "nosources") }

Entries ==
    Submissions \cup
    { RosterEntry(FALSE, TRUE, Url("root", NoPath), "single"),
      RosterEntry(TRUE, FALSE, Url("bad", NoPath), "nosources") }

Configs ==
    [limit : BOOLEAN, scope : {"repo", "dir"}, force_rename : BOOLEAN,
     keep_original : BOOLEAN, preserve_subdirs : BOOLEAN]

\* parse_repo_url: the RepoRef of a url, by its shape; branch None for a bare
\* repository, "error" when parse_repo_url raises
ParseRepoUrl(url) ==
    CASE url.shape = "blob" -> [branch |-> "br", path |-> url.path]
      [] url.shape = "tree" -> [branch |-> "br", path |-> url.path]
      [] url.shape = "root" -> [branch |-> None, path |-> NoPath]
      [] OTHER -> [branch |-> "error", path |-> NoPath]

NoRef == [branch |-> None, path |-> NoPath]

(***************************************************************************)
(* staging.py                                                              *)
(***************************************************************************)
EmptyMeta == [key \in {} |-> ""]

WriteJsonOverwrite(current, patch) == patch

\* write_json_merge: current.update(patch)
WriteJsonMerge(current, patch) ==
    [key \in DOMAIN current \cup DOMAIN patch |->
        IF key \in DOMAIN patch THEN patch[key] ELSE current[key]]

\* record_failure: the payload written for a status
FailurePayload(status, hasDetail) ==
    IF hasDetail
    THEN [submitted_url |-> "url", status |-> status, failure_reason |-> status,
          detail |-> "exc"]
    ELSE [submitted_url |-> "url", status |-> status, failure_reason |-> status]

\* safe_write: the file at dst is created or replaced
SafeWrite(fs, dst, src, m) ==
    {f \in fs : f.path # dst} \cup {[path |-> dst, src |-> src, main |-> m]}

\* os.path.isfile / os.path.exists under the staging root
IsFile(fs, p) == \E f \in fs : f.path = p

\* has_main_function of the text of the file at p
HasMainAt(fs, p) == \E f \in fs : f.path = p /\ f.main

OutOfScopeByText(p, scope_prefix) ==
    /\ scope_prefix.set
    /\ scope_prefix.prefix # <<>>
    /\ ~StartsWith(p, RStripSlash(scope_prefix.prefix))

\* filter_c_h_paths, line 66: the entry lies outside a non-empty scope prefix
OutOfScope(p, scope_prefix) ==
    /\ scope_prefix.set
    /\ scope_prefix.prefix # <<>>
    /\ ~(p = scope_prefix.prefix
           \/ StartsWith(p, RStripSlash(scope_prefix.prefix) \o <<"/">>))

\* filter_c_h_paths
RECURSIVE FilterFrom(_, _, _)
FilterFrom(tree, i, scope_prefix) ==
    IF i > Len(tree) THEN <<>>
    ELSE LET ent == tree[i]
             rest == FilterFrom(tree, i + 1, scope_prefix)
         IN  IF ent.type # "blob" THEN rest
             ELSE IF OutOfScope(ent.path, scope_prefix) THEN rest
             ELSE IF EndsWithExt(ent.path, {".c", ".h"}) THEN <<ent.path>> \o rest
             ELSE rest

FilterCHPaths(tree, scope_prefix) == FilterFrom(tree, 1, scope_prefix)

\* pick_main_from_staged, lines 81-82
CPathsInScope(scope, staged_paths) ==
    SelectSeq(staged_paths,
              LAMBDA p : EndsWithExt(p, {".c"})
                         /\ (scope = <<>> \/ p = scope \/ StartsWith(p, scope \o <<"/">>)))

\* pick_main_from_staged, line 85
CandidateRel(scope) == IF scope # <<>> THEN scope \o <<"/">> \o RenameTo ELSE RenameTo

AnyCandidate(candidates) == Len(candidates) >= 1

\* pick_main_from_staged, line 100
UniqueCandidate(candidates) == Len(candidates) = 1

PickMainContentFirst(fs, scope_prefix, staged_paths) ==
    LET scope == StripSlash(scope_prefix)
        c_paths == CPathsInScope(scope, staged_paths)
        candidates == SelectSeq(c_paths, LAMBDA rel : HasMainAt(fs, rel))
    IN  IF Len(candidates) = 1 THEN [found |-> TRUE, path |-> candidates[1]]
        ELSE IF IsFile(fs, CandidateRel(scope))
             THEN [found |-> TRUE, path |-> CandidateRel(scope)]
        ELSE [found |-> FALSE, path |-> NoPath]

\* pick_main_from_staged: [found, path]
PickMainFromStaged(fs, scope_prefix, staged_paths) ==
    LET scope == StripSlash(scope_prefix)
        c_paths == CPathsInScope(scope, staged_paths)
        candidates == SelectSeq(c_paths, LAMBDA rel : HasMainAt(fs, rel))
    IN  IF IsFile(fs, CandidateRel(scope)) THEN [found |-> TRUE, path |-> CandidateRel(scope)]
        ELSE IF UniqueCandidate(candidates) THEN [found |-> TRUE, path |-> candidates[1]]
        ELSE [found |-> FALSE, path |-> NoPath]

NoHint == [present |-> FALSE, path |-> NoPath]

\* write_main_hint
MainHint(rel_path) == [present |-> TRUE, path |-> rel_path]

(***************************************************************************)
(* FetchService.run_for_map, _resolve_ref and _stage_student               *)
(***************************************************************************)
\* the entity at path p of a repository, as get_contents_meta classifies it:
\* "file", "dir", or None when the path does not exist (the request fails)
KindAt(repo, p) ==
    LET q == StripSlash(p)
        tree == Tree(repo)
    IN  IF q = <<>> THEN "dir"
        ELSE IF \E i \in 1..Len(tree) : tree[i].path = q /\ tree[i].type = "blob" THEN "file"
        ELSE IF \E i \in 1..Len(tree) : tree[i].path = q /\ tree[i].type = "tree" THEN "dir"
        ELSE None

\* whether the blob at path p of a repository holds a main function
BlobHasMain(repo, p) ==
    \E i \in 1..Len(Tree(repo)) : Tree(repo)[i].path = p /\ Tree(repo)[i].main

\* a staging directory left by earlier runs: a representative saved as
\* main.c, its hint, and a failure recorded by a later run
StaleFiles == {[path |-> RenameTo, src |-> <<"old">>, main |-> TRUE]}

StaleMeta ==
    [submitted_url |-> "old", submitted_kind |-> "non_c_file",
     submitted_path |-> <<"old">>, saved_as |-> RenameTo,
     status |-> "no_sources_found", failure_reason |-> "no_sources_found"]

\* run_for_map, lines 195-200: the status recorded when _resolve_ref raises
ResolveFailureStatus(r) ==
    IF r.branch = None THEN "default_branch_failed" ELSE "head_lookup_failed"

\* _stage_student, lines 96-100
DirScopePrefix(meta_kind, r) ==
    IF meta_kind = "dir" THEN [set |-> TRUE, prefix |-> StripSlash(r.path)]
    ELSE IF meta_kind = None /\ r.path = NoPath THEN [set |-> TRUE, prefix |-> NoPath]
    ELSE [set |-> FALSE, prefix |-> NoPath]

\* _stage_student, lines 105-110
ScopePrefix(ds, scope, r) ==
    IF ds.set THEN ds
    ELSE IF scope = "dir"
         THEN [set |-> TRUE, prefix |-> IF r.path # NoPath THEN Dirname(r.path) ELSE NoPath]
    ELSE [set |-> FALSE, prefix |-> NoPath]

\* _stage_student, lines 127-130
Destination(p, preserve_subdirs) == IF preserve_subdirs THEN p ELSE Basename(p)

NoCommitNever(limit, commit) == FALSE

\* run_for_map, line 203: limit_dt is not None and not sha
NoCommit(limit, commit) == limit /\ commit = None

NoSourcesOnlyWithoutPaths(saved, ps) == ps = <<>>

\* _stage_student, line 149
NoSources(saved, ps) == ~saved /\ ps = <<>>

\* the state of a student before its processing starts
FreshStudent ==
    /\ ref' = NoRef
    /\ branch' = None
    /\ sha' = None
    /\ rep_meta' = None
    /\ rep_saved' = FALSE
    /\ skip_paths' = {}
    /\ dir_scope' = [set |-> FALSE, prefix |-> NoPath]
    /\ paths' = <<>>
    /\ k' = 1
    /\ staged_count' = 0
    /\ ok' = "none"
    /\ calls' = {}
    /\ cause' = "none"
    /\ recorded' = <<>>
    /\ hintWrites' = 0
    /\ attempted' = <<>>
    /\ failed' = {}
    /\ loopWrites' = 0
    /\ repCopies' = 0

\* nothing is staged yet, by either program, in either directory
ShadowIdle ==
    /\ t_files = {}
    /\ t_meta = EmptyMeta
    /\ t_hint = NoHint
    /\ l_meta = EmptyMeta
    /\ l_hint = NoHint
    /\ l_paths = <<>>

MainInit ==
    /\ cfg \in Configs
    /\ pc = "loop"
    /\ idx = 1
    /\ staged_students = 0
    /\ reported = -1
    /\ eligible = 0
    /\ skipped = 0
    /\ finished = 0
    /\ okReturns = 0
    /\ entry = RosterEntry(FALSE, FALSE, Url("bad", NoPath), "nosources")
    /\ ref = NoRef
    /\ branch = None
    /\ sha = None
    /\ rep_meta = None
    /\ rep_saved = FALSE
    /\ skip_paths = {}
    /\ dir_scope = [set |-> FALSE, prefix |-> NoPath]
    /\ paths = <<>>
    /\ k = 1
    /\ staged_count = 0
    /\ ok = "none"
    /\ files = {}
    /\ meta = EmptyMeta
    /\ hint = NoHint
    /\ calls = {}
    /\ cause = "none"
    /\ recorded = <<>>
    /\ hintWrites = 0
    /\ attempted = <<>>
    /\ failed = {}
    /\ loopWrites = 0
    /\ repCopies = 0
    /\ ShadowIdle

\* the variables of the run while another operation is modelled
MainIdle ==
    /\ cfg = [limit |-> FALSE, scope |-> "repo", force_rename |-> FALSE,
              keep_original |-> FALSE, preserve_subdirs |-> TRUE]
    /\ pc = "idle"
    /\ idx = 0
    /\ staged_students = 0
    /\ reported = -1
    /\ eligible = 0
    /\ skipped = 0
    /\ finished = 0
    /\ okReturns = 0
    /\ entry = RosterEntry(FALSE, FALSE, Url("bad", NoPath), "nosources")
    /\ ref = NoRef
    /\ branch = None
    /\ sha = None
    /\ rep_meta = None
    /\ rep_saved = FALSE
    /\ skip_paths = {}
    /\ dir_scope = [set |-> FALSE, prefix |-> NoPath]
    /\ paths = <<>>
    /\ k = 1
    /\ staged_count = 0
    /\ ok = "none"
    /\ files = {}
    /\ meta = EmptyMeta
    /\ hint = NoHint
    /\ calls = {}
    /\ cause = "none"
    /\ recorded = <<>>
    /\ hintWrites = 0
    /\ attempted = <<>>
    /\ failed = {}
    /\ loopWrites = 0
    /\ repCopies = 0
    /\ ShadowIdle

ContinueFallsThrough == "probe"

\* lines 190, 201, 205: continue, back to the head of the for loop
ContinueTarget == "loop"

NextIndexBreaks(i) == NStudents + 1

\* line 176: the for loop moves to the next roster entry
NextIndex(i) == i + 1

\* record_failure followed by continue: the student's processing ends
RecordAndContinue(status, hasDetail) ==
    /\ meta' = WriteJsonMerge(meta, FailurePayload(status, hasDetail))
    /\ recorded' = Append(recorded, status)
    /\ pc' = ContinueTarget
    /\ idx' = NextIndex(idx)
    /\ finished' = finished + 1
    /\ UNCHANGED <<files, hint>>

\* lines 176-180: an entry without id or url is passed over
SkipEntry ==
    /\ pc = "loop"
    /\ idx <= NStudents
    /\ \E e \in Entries : ~(e.hasId /\ e.hasUrl)
    /\ idx' = NextIndex(idx)
    /\ skipped' = skipped + 1
    /\ UNCHANGED <<cfg, pc, staged_students, reported, eligible, finished, okReturns>>
    /\ UNCHANGED <<entry, ref, branch, sha, rep_meta, rep_saved, skip_paths, dir_scope, paths, k,
                   staged_count, ok>>
    /\ UNCHANGED <<diskVars, histVars>>

\* lines 176-182: the next entry with an id and a url; its staging directory is
\* new or left by earlier runs
StartStudent ==
    /\ pc = "loop"
    /\ idx <= NStudents
    /\ \E e \in Entries :
         /\ e.hasId /\ e.hasUrl
         /\ entry' = e
    /\ \/ files' = {} /\ meta' = EmptyMeta /\ hint' = NoHint
       \/ files' = StaleFiles /\ meta' = StaleMeta /\ hint' = MainHint(RenameTo)
    /\ FreshStudent
    /\ eligible' = eligible + 1
    /\ pc' = "parse"
    /\ UNCHANGED <<cfg, idx, staged_students, reported, skipped, finished, okReturns>>

\* lines 185-190: parse_repo_url raises
ParseFails ==
    /\ pc = "parse"
    /\ ParseRepoUrl(entry.url).branch = "error"
    /\ cause' = "parse"
    /\ RecordAndContinue("url_parse_failed", TRUE)
    /\ UNCHANGED <<cfg, staged_students, reported, eligible, skipped, okReturns>>
    /\ UNCHANGED <<stuVars, calls, hintWrites, attempted, failed, loopWrites, repCopies>>

\* lines 185-187, 37-38
ParseOk ==
    /\ pc = "parse"
    /\ ParseRepoUrl(entry.url).branch # "error"
    /\ ref' = ParseRepoUrl(entry.url)
    /\ branch' = ParseRepoUrl(entry.url).branch
    /\ pc' = IF ParseRepoUrl(entry.url).branch = None THEN "default_branch" ELSE "commit"
    /\ UNCHANGED <<cfg, idx, staged_students, reported, eligible, skipped, finished, okReturns>>
    /\ UNCHANGED <<entry, sha, rep_meta, rep_saved, skip_paths, dir_scope, paths, k,
                   staged_count, ok>>
    /\ UNCHANGED <<diskVars, histVars>>

\* lines 39-41: the default branch is resolved
DefaultBranchOk ==
    /\ pc = "default_branch"
    /\ calls' = calls \cup {"default_branch"}
    /\ branch' = "main"
    /\ pc' = "commit"
    /\ UNCHANGED <<cfg, idx, staged_students, reported, eligible, skipped, finished, okReturns>>
    /\ UNCHANGED <<entry, ref, sha, rep_meta, rep_saved, skip_paths, dir_scope, paths, k,
                   staged_count, ok>>
    /\ UNCHANGED <<diskVars, cause, recorded, hintWrites, attempted, failed, loopWrites, repCopies>>

\* lines 42-43, 195-201: get_default_branch raises
DefaultBranchFails ==
    /\ pc = "default_branch"
    /\ calls' = calls \cup {"default_branch"}
    /\ cause' = "default_branch"
    /\ RecordAndContinue(ResolveFailureStatus(ref), TRUE)
    /\ UNCHANGED <<cfg, staged_students, reported, eligible, skipped, okReturns>>
    /\ UNCHANGED <<stuVars, hintWrites, attempted, failed, loopWrites, repCopies>>

\* line 48: get_branch_head returns the head
HeadLookupOk ==
    /\ pc = "commit"
    /\ ~cfg.limit
    /\ calls' = calls \cup {"head"}
    /\ sha' = "sha"
    /\ pc' = "check_sha"
    /\ UNCHANGED <<cfg, idx, staged_students, reported, eligible, skipped, finished, okReturns>>
    /\ UNCHANGED <<entry, ref, branch, rep_meta, rep_saved, skip_paths, dir_scope, paths, k,
                   staged_count, ok>>
    /\ UNCHANGED <<diskVars, cause, recorded, hintWrites, attempted, failed, loopWrites, repCopies>>

\* lines 48, 195-201: get_branch_head raises
HeadLookupFails ==
    /\ pc = "commit"
    /\ ~cfg.limit
    /\ calls' = calls \cup {"head"}
    /\ cause' = "head"
    /\ RecordAndContinue(ResolveFailureStatus(ref), TRUE)
    /\ UNCHANGED <<cfg, staged_students, reported, eligible, skipped, okReturns>>
    /\ UNCHANGED <<stuVars, hintWrites, attempted, failed, loopWrites, repCopies>>

\* lines 45-47: get_commit_before returns a commit
CommitLookupFound ==
    /\ pc = "commit"
    /\ cfg.limit
    /\ calls' = calls \cup {"commits"}
    /\ sha' = "sha"
    /\ pc' = "check_sha"
    /\ UNCHANGED <<cfg, idx, staged_students, reported, eligible, skipped, finished, okReturns>>
    /\ UNCHANGED <<entry, ref, branch, rep_meta, rep_saved, skip_paths, dir_scope, paths, k,
                   staged_count, ok>>
    /\ UNCHANGED <<diskVars, cause, recorded, hintWrites, attempted, failed, loopWrites, repCopies>>

\* lines 45-47: get_commit_before returns None
CommitLookupNone ==
    /\ pc = "commit"
    /\ cfg.limit
    /\ calls' = calls \cup {"commits"}
    /\ sha' = None
    /\ cause' = "no_commit"
    /\ pc' = "check_sha"
    /\ UNCHANGED <<cfg, idx, staged_students, reported, eligible, skipped, finished, okReturns>>
    /\ UNCHANGED <<entry, ref, branch, rep_meta, rep_saved, skip_paths, dir_scope, paths, k,
                   staged_count, ok>>
    /\ UNCHANGED <<diskVars, recorded, hintWrites, attempted, failed, loopWrites, repCopies>>

\* lines 45-47, 195-201: get_commit_before raises
CommitLookupFails ==
    /\ pc = "commit"
    /\ cfg.limit
    /\ calls' = calls \cup {"commits"}
    /\ cause' = "commit_lookup"
    /\ RecordAndContinue(ResolveFailureStatus(ref), TRUE)
    /\ UNCHANGED <<cfg, staged_students, reported, eligible, skipped, okReturns>>
    /\ UNCHANGED <<stuVars, hintWrites, attempted, failed, loopWrites, repCopies>>

\* lines 203-205: no commit at or before the limit
NoCommitBeforeLimit ==
    /\ pc = "check_sha"
    /\ NoCommit(cfg.limit, sha)
    /\ RecordAndContinue("no_commit_before_limit", FALSE)
    /\ UNCHANGED <<cfg, staged_students, reported, eligible, skipped, okReturns>>
    /\ UNCHANGED <<stuVars, calls, cause, hintWrites, attempted, failed, loopWrites, repCopies>>

\* lines 203-213, 51-52: a commit was resolved, _stage_student is entered
EnterStaging ==
    /\ pc = "check_sha"
    /\ ~NoCommit(cfg.limit, sha)
    /\ pc' = "probe"
    /\ UNCHANGED <<cfg, idx, staged_students, reported, eligible, skipped, finished, okReturns>>
    /\ UNCHANGED <<stuVars, diskVars, histVars>>

\* line 55, get_contents_meta lines 90-100: the probe answers
ProbeOk ==
    /\ pc = "probe"
    /\ calls' = calls \cup {"probe"}
    /\ rep_meta' = KindAt(entry.repo, ref.path)
    /\ pc' = "rep"
    /\ UNCHANGED <<cfg, idx, staged_students, reported, eligible, skipped, finished, okReturns>>
    /\ UNCHANGED <<entry, ref, branch, sha, rep_saved, skip_paths, dir_scope, paths, k,
                   staged_count, ok>>
    /\ UNCHANGED <<diskVars, cause, recorded, hintWrites, attempted, failed, loopWrites, repCopies>>

\* line 55, get_contents_meta lines 94-95: the probe fails and yields None
ProbeFails ==
    /\ pc = "probe"
    /\ calls' = calls \cup {"probe"}
    /\ rep_meta' = None
    /\ pc' = "rep"
    /\ UNCHANGED <<cfg, idx, staged_students, reported, eligible, skipped, finished, okReturns>>
    /\ UNCHANGED <<entry, ref, branch, sha, rep_saved, skip_paths, dir_scope, paths, k,
                   staged_count, ok>>
    /\ UNCHANGED <<diskVars, cause, recorded, hintWrites, attempted, failed, loopWrites, repCopies>>

\* lines 61-63
RepRel == ref.path

RepBase == Basename(RepRel)

RepIsC == EndsWithExt(RepBase, {".c"})

HintOnlyForMainC == RepIsC /\ RepBase = RenameTo /\ ~cfg.force_rename

\* line 65: the representative is not duplicated as rename_to
HintOnly == RepIsC /\ ~cfg.force_rename

\* lines 60, 96-100: the representative is not a file
RepNotFile ==
    /\ pc = "rep"
    /\ rep_meta # "file"
    /\ dir_scope' = DirScopePrefix(rep_meta, ref)
    /\ pc' = "tree"
    /\ UNCHANGED <<cfg, idx, staged_students, reported, eligible, skipped, finished, okReturns>>
    /\ UNCHANGED <<entry, ref, branch, sha, rep_meta, rep_saved, skip_paths, paths, k,
                   staged_count, ok>>
    /\ UNCHANGED <<diskVars, histVars>>

\* lines 65-68: a .c representative without force_rename: only the hint is written
RepHintOnly ==
    /\ pc = "rep"
    /\ rep_meta = "file"
    /\ HintOnly
    /\ hint' = MainHint(RepRel)
    /\ hintWrites' = hintWrites + 1
    /\ dir_scope' = DirScopePrefix(rep_meta, ref)
    /\ pc' = "tree"
    /\ UNCHANGED <<cfg, idx, staged_students, reported, eligible, skipped, finished, okReturns>>
    /\ UNCHANGED <<entry, ref, branch, sha, rep_meta, rep_saved, skip_paths, paths, k,
                   staged_count, ok>>
    /\ UNCHANGED <<files, meta, calls, cause, recorded, attempted, failed, loopWrites, repCopies>>

SkipNothing == {}

\* lines 88-89: the path of a .c representative saved as rename_to is skipped
SkippedAfterRename == IF RepIsC /\ cfg.force_rename THEN {RepRel} ELSE {}

\* lines 82-85: the copy under the original name
KeepOriginal(fs, data_main) ==
    IF cfg.keep_original /\ ~RepIsC /\ ~IsFile(fs, RepBase)
    THEN SafeWrite(fs, RepBase, RepRel, data_main)
    ELSE fs

\* lines 70-89: the representative is fetched and saved as rename_to
RepFetchOk ==
    /\ pc = "rep"
    /\ rep_meta = "file"
    /\ ~HintOnly
    /\ calls' = calls \cup {"raw"}
    /\ files' = KeepOriginal(SafeWrite(files, RenameTo, RepRel, BlobHasMain(entry.repo, RepRel)),
                             BlobHasMain(entry.repo, RepRel))
    /\ hint' = MainHint(RenameTo)
    /\ hintWrites' = hintWrites + 1
    /\ meta' = WriteJsonMerge(meta, [submitted_url |-> "url", submitted_kind |-> "non_c_file",
                                     submitted_path |-> RepRel, saved_as |-> RenameTo])
    /\ repCopies' = repCopies + 1
    /\ rep_saved' = TRUE
    /\ skip_paths' = SkippedAfterRename
    /\ dir_scope' = DirScopePrefix(rep_meta, ref)
    /\ pc' = "tree"
    /\ UNCHANGED <<cfg, idx, staged_students, reported, eligible, skipped, finished, okReturns>>
    /\ UNCHANGED <<entry, ref, branch, sha, rep_meta, paths, k, staged_count, ok>>
    /\ UNCHANGED <<cause, recorded, attempted, failed, loopWrites>>

\* lines 70-71, 90-93: fetch_raw of the representative raises
RepFetchFails ==
    /\ pc = "rep"
    /\ rep_meta = "file"
    /\ ~HintOnly
    /\ calls' = calls \cup {"raw"}
    /\ meta' = WriteJsonMerge(meta, FailurePayload("representative_fetch_failed", TRUE))
    /\ recorded' = Append(recorded, "representative_fetch_failed")
    /\ rep_saved' = FALSE
    /\ dir_scope' = DirScopePrefix(rep_meta, ref)
    /\ pc' = "tree"
    /\ UNCHANGED <<cfg, idx, staged_students, reported, eligible, skipped, finished, okReturns>>
    /\ UNCHANGED <<entry, ref, branch, sha, rep_meta, skip_paths, paths, k, staged_count, ok>>
    /\ UNCHANGED <<files, hint, cause, hintWrites, attempted, failed, loopWrites, repCopies>>

\* lines 103-111: the tree is listed and filtered
ListTreeOk ==
    /\ pc = "tree"
    /\ calls' = calls \cup {"tree"}
    /\ paths' = FilterCHPaths(Tree(entry.repo), ScopePrefix(dir_scope, cfg.scope, ref))
    /\ k' = 1
    /\ pc' = "files"
    /\ UNCHANGED <<cfg, idx, staged_students, reported, eligible, skipped, finished, okReturns>>
    /\ UNCHANGED <<entry, ref, branch, sha, rep_meta, rep_saved, skip_paths, dir_scope,
                   staged_count, ok>>
    /\ UNCHANGED <<diskVars, cause, recorded, hintWrites, attempted, failed, loopWrites, repCopies>>

\* lines 103-104, 112-114: list_tree raises
ListTreeFails ==
    /\ pc = "tree"
    /\ calls' = calls \cup {"tree"}
    /\ meta' = WriteJsonMerge(meta, FailurePayload("tree_list_failed", TRUE))
    /\ recorded' = Append(recorded, "tree_list_failed")
    /\ paths' = <<>>
    /\ k' = 1
    /\ pc' = "files"
    /\ UNCHANGED <<cfg, idx, staged_students, reported, eligible, skipped, finished, okReturns>>
    /\ UNCHANGED <<entry, ref, branch, sha, rep_meta, rep_saved, skip_paths, dir_scope,
                   staged_count, ok>>
    /\ UNCHANGED <<files, hint, cause, hintWrites, attempted, failed, loopWrites, repCopies>>

AfterFetchFailureBreaks(i, n) == n + 1

\* lines 122-125: continue with the next path after a failed fetch
AfterFetchFailure(i, n) == i + 1

\* lines 117-119: a path of skip_paths is passed over
FileSkipped ==
    /\ pc = "files"
    /\ k <= Len(paths)
    /\ paths[k] \in skip_paths
    /\ k' = k + 1
    /\ UNCHANGED <<cfg, pc, idx, staged_students, reported, eligible, skipped, finished,
                   okReturns>>
    /\ UNCHANGED <<entry, ref, branch, sha, rep_meta, rep_saved, skip_paths, dir_scope, paths,
                   staged_count, ok>>
    /\ UNCHANGED <<diskVars, histVars>>

\* lines 120-132: the path is fetched and written
FileFetchOk ==
    /\ pc = "files"
    /\ k <= Len(paths)
    /\ paths[k] \notin skip_paths
    /\ calls' = calls \cup {"raw"}
    /\ attempted' = Append(attempted, paths[k])
    /\ files' = SafeWrite(files, Destination(paths[k], cfg.preserve_subdirs), paths[k],
                          BlobHasMain(entry.repo, paths[k]))
    /\ loopWrites' = loopWrites + 1
    /\ staged_count' = staged_count + 1
    /\ k' = k + 1
    /\ UNCHANGED <<cfg, pc, idx, staged_students, reported, eligible, skipped, finished,
                   okReturns>>
    /\ UNCHANGED <<entry, ref, branch, sha, rep_meta, rep_saved, skip_paths, dir_scope, paths,
                   ok>>
    /\ UNCHANGED <<meta, hint, cause, recorded, hintWrites, failed, repCopies>>

\* lines 120-125: fetch_raw of the path raises
FileFetchFails ==
    /\ pc = "files"
    /\ k <= Len(paths)
    /\ paths[k] \notin skip_paths
    /\ calls' = calls \cup {"raw"}
    /\ attempted' = Append(attempted, paths[k])
    /\ failed' = failed \cup {paths[k]}
    /\ k' = AfterFetchFailure(k, Len(paths))
    /\ UNCHANGED <<cfg, pc, idx, staged_students, reported, eligible, skipped, finished,
                   okReturns>>
    /\ UNCHANGED <<entry, ref, branch, sha, rep_meta, rep_saved, skip_paths, dir_scope, paths,
                   staged_count, ok>>
    /\ UNCHANGED <<diskVars, cause, recorded, hintWrites, loopWrites, repCopies>>

\* line 134: no directory scope, no entry point is picked
PickSkipped ==
    /\ pc = "files"
    /\ k > Len(paths)
    /\ ~dir_scope.set
    /\ pc' = "final"
    /\ UNCHANGED <<cfg, idx, staged_students, reported, eligible, skipped, finished, okReturns>>
    /\ UNCHANGED <<stuVars, diskVars, histVars>>

\* lines 134-143: the entry point is picked among the staged files
PickOk ==
    /\ pc = "files"
    /\ k > Len(paths)
    /\ dir_scope.set
    /\ PickMainFromStaged(files, dir_scope.prefix, paths).found
    /\ hint' = MainHint(PickMainFromStaged(files, dir_scope.prefix, paths).path)
    /\ hintWrites' = hintWrites + 1
    /\ meta' = WriteJsonMerge(meta,
                  [submitted_url |-> "url",
                   submitted_kind |-> IF rep_meta = "dir" THEN "dir" ELSE "repo",
                   auto_picked_main |-> PickMainFromStaged(files, dir_scope.prefix, paths).path])
    /\ pc' = "final"
    /\ UNCHANGED <<cfg, idx, staged_students, reported, eligible, skipped, finished, okReturns>>
    /\ UNCHANGED <<stuVars, files, calls, cause, recorded, attempted, failed, loopWrites, repCopies>>

\* lines 134-135, 144-147: no unique entry point
PickFails ==
    /\ pc = "files"
    /\ k > Len(paths)
    /\ dir_scope.set
    /\ ~PickMainFromStaged(files, dir_scope.prefix, paths).found
    /\ meta' = WriteJsonMerge(meta, FailurePayload("auto_pick_main_failed", FALSE))
    /\ recorded' = Append(recorded, "auto_pick_main_failed")
    /\ pc' = "final"
    /\ UNCHANGED <<cfg, idx, staged_students, reported, eligible, skipped, finished, okReturns>>
    /\ UNCHANGED <<stuVars, files, hint, calls, cause, hintWrites, attempted, failed,
                   loopWrites, repCopies>>

\* lines 149-153, 213-214: nothing was staged, _stage_student returns False
StageNoSources ==
    /\ pc = "final"
    /\ NoSources(rep_saved, paths)
    /\ meta' = WriteJsonMerge(meta, FailurePayload("no_sources_found", FALSE))
    /\ recorded' = Append(recorded, "no_sources_found")
    /\ ok' = "false"
    /\ pc' = "loop"
    /\ idx' = NextIndex(idx)
    /\ finished' = finished + 1
    /\ UNCHANGED <<cfg, staged_students, reported, eligible, skipped, okReturns>>
    /\ UNCHANGED <<entry, ref, branch, sha, rep_meta, rep_saved, skip_paths, dir_scope, paths,
                   k, staged_count>>
    /\ UNCHANGED <<files, hint, calls, cause, hintWrites, attempted, failed, loopWrites, repCopies>>

\* lines 155-156, 213-215: _stage_student returns True and the student is counted
StageSucceeds ==
    /\ pc = "final"
    /\ ~NoSources(rep_saved, paths)
    /\ ok' = "true"
    /\ okReturns' = okReturns + 1
    /\ staged_students' = staged_students + 1
    /\ pc' = "loop"
    /\ idx' = NextIndex(idx)
    /\ finished' = finished + 1
    /\ UNCHANGED <<cfg, reported, eligible, skipped>>
    /\ UNCHANGED <<entry, ref, branch, sha, rep_meta, rep_saved, skip_paths, dir_scope, paths,
                   k, staged_count>>
    /\ UNCHANGED <<diskVars, histVars>>

\* line 217: the summary
Summary ==
    /\ pc = "loop"
    /\ idx > NStudents
    /\ reported' = staged_students
    /\ pc' = "done"
    /\ UNCHANGED <<cfg, idx, staged_students, eligible, skipped, finished, okReturns>>
    /\ UNCHANGED <<stuVars, diskVars, histVars>>

(***************************************************************************)
(* pick_main_from_staged, called on its own with any files on the disk     *)
(***************************************************************************)
\* the paths a staging root may hold, in the order of a tree listing
PickPaths ==
    << <<"main", ".c">>,
       <<"src", "/", "main", ".c">>,
       <<"src", "/", "a", ".c">>,
       <<"src", "/", "b", ".C">>,
       <<"src", "2", "/", "main", ".c">> >>

PickPathSet == {PickPaths[i] : i \in 1..Len(PickPaths)}

\* the staging roots: each path absent, or a file with or without a main function
PickDisks ==
    { {[path |-> q, src |-> q, main |-> q \in withMain] : q \in present} :
         present \in SUBSET PickPathSet, withMain \in SUBSET PickPathSet }

\* the values of scope_prefix
PickScopes == {<<>>, <<"src">>, <<"src", "/">>}

\* the values of staged_paths: the paths of a set, in the order of the listing
PickStaged(chosen) == SelectSeq(PickPaths, LAMBDA q : q \in chosen)

NoPick == [found |-> FALSE, path |-> NoPath]

PickIdle ==
    /\ p_pc = "idle"
    /\ p_fs = {}
    /\ p_scope = <<>>
    /\ p_staged = <<>>
    /\ p_result = NoPick

PickInit ==
    /\ p_pc = "call"
    /\ p_fs \in PickDisks
    /\ p_scope \in PickScopes
    /\ \E chosen \in SUBSET PickPathSet : p_staged = PickStaged(chosen)
    /\ p_result = NoPick

\* pick_main_from_staged(student_root, scope_prefix, staged_paths)
PickMain ==
    /\ p_pc = "call"
    /\ p_result' = PickMainFromStaged(p_fs, p_scope, p_staged)
    /\ p_pc' = "done"
    /\ UNCHANGED <<p_fs, p_scope, p_staged>>

(***************************************************************************)
(* write_json_merge, called on its own any number of times                 *)
(***************************************************************************)
\* the keys and values of the patches
MergeKeys == {"status", "saved_as"}

MergeValues == {"v1", "v2"}

\* the patches: the dicts over some of the keys
Patches == UNION {[keys -> MergeValues] : keys \in SUBSET MergeKeys}

\* the contents of the file before the first call; it is absent for the first
MergeInitials ==
    { EmptyMeta,
      [key \in {"submitted_url"} |-> "v0"],
      [key \in {"submitted_url", "status"} |-> "v0"] }

MergeIdle ==
    /\ m_pc = "idle"
    /\ m_initial = EmptyMeta
    /\ sidecar = EmptyMeta
    /\ log = <<>>

MergeInit ==
    /\ m_pc = "write"
    /\ m_initial \in MergeInitials
    /\ sidecar = m_initial
    /\ log = <<>>

\* write_json_merge(path, patch)
MergeWrite ==
    /\ m_pc = "write"
    /\ Len(log) < MaxWrites
    /\ \E patch \in Patches :
         /\ sidecar' = WriteJsonMerge(sidecar, patch)
         /\ log' = Append(log, patch)
    /\ UNCHANGED <<m_pc, m_initial>>

\* write_json_merge(path, patch) with the patch of the call before
MergeRepeat ==
    /\ m_pc = "write"
    /\ log # <<>>
    /\ Len(log) < MaxWrites
    /\ sidecar' = WriteJsonMerge(sidecar, log[Len(log)])
    /\ log' = Append(log, log[Len(log)])
    /\ UNCHANGED <<m_pc, m_initial>>

(***************************************************************************)
(* url_parser.encode_path_preserving_segments, called on its own           *)
(***************************************************************************)
\* A text is a sequence of characters.  The characters a path may arrive
\* with: a letter, the separator, the percent sign and three hex digits, so
\* that a '%' followed by two hex digits can be written.
TextChars == {"a", "/", "%", "2", "5", "F"}

HexDigits == {"2", "5", "F"}

Texts == UNION {[1..n -> TextChars] : n \in 0..MaxTextLen}

\* U+FFFD, which unquote puts for a byte that is not UTF-8 (errors='replace'),
\* and its percent-encoding %EF%BF%BD, kept as one token
Replacement == "U+FFFD"

ReplacementEncoded == "%EF%BF%BD"

\* the character of the byte written with two hex digits
ByteChar(h1, h2) ==
    CASE <<h1, h2>> = <<"2", "2">> -> "\""
      [] <<h1, h2>> = <<"2", "5">> -> "%"
      [] <<h1, h2>> = <<"2", "F">> -> "/"
      [] <<h1, h2>> = <<"5", "2">> -> "R"
      [] <<h1, h2>> = <<"5", "5">> -> "U"
      [] <<h1, h2>> = <<"5", "F">> -> "_"
      [] OTHER -> Replacement

\* urllib.parse.unquote: every '%' followed by two hex digits becomes the
\* character of that byte; any other '%' stays as it is
RECURSIVE Unquote(_)
Unquote(s) ==
    IF s = <<>> THEN <<>>
    ELSE IF s[1] = "%" /\ Len(s) >= 3 /\ s[2] \in HexDigits /\ s[3] \in HexDigits
         THEN <<ByteChar(s[2], s[3])>> \o Unquote(SubSeq(s, 4, Len(s)))
    ELSE IF s[1] = ReplacementEncoded
         THEN <<Replacement>> \o Unquote(Tail(s))
    ELSE <<s[1]>> \o Unquote(Tail(s))

\* urllib.parse.quote(c, safe=""): letters, digits and '_' stay, every
\* other character is written as '%' and the hex digits of its bytes
QuoteChar(c) ==
    CASE c = "/" -> <<"%", "2", "F">>
      [] c = "%" -> <<"%", "2", "5">>
      [] c = "\"" -> <<"%", "2", "2">>
      [] c = Replacement -> <<ReplacementEncoded>>
      [] OTHER -> <<c>>

RECURSIVE Quote(_)
Quote(s) == IF s = <<>> THEN <<>> ELSE QuoteChar(s[1]) \o Quote(Tail(s))

\* str.split("/"): the segments, one more than there are separators
RECURSIVE Split(_)
Split(s) ==
    IF \A i \in 1..Len(s) : s[i] # "/" THEN <<s>>
    ELSE LET i == CHOOSE j \in 1..Len(s) :
                     s[j] = "/" /\ \A h \in 1..(j - 1) : s[h] # "/"
         IN <<SubSeq(s, 1, i - 1)>> \o Split(SubSeq(s, i + 1, Len(s)))

\* "/".join(segs)
RECURSIVE Join(_)
Join(segs) ==
    IF Len(segs) = 1 THEN segs[1]
    ELSE segs[1] \o <<"/">> \o Join(Tail(segs))

\* lines 41-43
EncodePathPreservingSegments(path) ==
    LET segs == Split(path)
    IN Join([i \in 1..Len(segs) |-> Quote(Unquote(segs[i]))])

\* the text with the characters at the marked places percent-encoded and
\* the separators kept: a form in which a path may arrive
RECURSIVE EncodedAt(_, _)
EncodedAt(text, marked) ==
    IF text = <<>> THEN <<>>
    ELSE (IF marked[1] /\ text[1] # "/" THEN QuoteChar(text[1]) ELSE <<text[1]>>)
         \o EncodedAt(Tail(text), Tail(marked))

\* what the server reads from the path of a request: each segment decoded
DecodedSegments(sent) ==
    LET segs == Split(sent)
    IN Join([i \in 1..Len(segs) |-> Unquote(segs[i])])

EncodeIdle ==
    /\ e_pc = "idle"
    /\ e_in = <<>>
    /\ e_form = "none"
    /\ e_text = <<>>
    /\ e_arg = <<>>
    /\ e_sent = <<>>

EncodeInit ==
    /\ e_pc = "call"
    /\ e_in \in Texts
    /\ e_form = "none"
    /\ e_text = <<>>
    /\ e_arg = <<>>
    /\ e_sent = <<>>

\* github_client.py lines 91 and 103: the path is the real text of a name,
\* as the tree listing or the content probe returned it
EncodeListedPath ==
    /\ e_pc = "call"
    /\ e_form' = "listed"
    /\ e_text' = e_in
    /\ e_arg' = e_in
    /\ e_sent' = EncodePathPreservingSegments(e_in)
    /\ e_pc' = "done"
    /\ UNCHANGED e_in

\* url_parser.py lines 87, 97, 107 and github_client.py line 91: the path of
\* the submitted url, decoded by parse_repo_url, then encoded for the request
EncodeParsedPath ==
    /\ e_pc = "call"
    /\ e_form' = "parsed"
    /\ e_text' = Unquote(e_in)
    /\ e_arg' = Unquote(e_in)
    /\ e_sent' = EncodePathPreservingSegments(Unquote(e_in))
    /\ e_pc' = "done"
    /\ UNCHANGED e_in

\* the path arrives with every segment already percent-encoded
EncodeEncodedPath ==
    /\ e_pc = "call"
    /\ e_form' = "encoded"
    /\ e_text' = e_in
    /\ e_arg' = EncodedAt(e_in, [i \in 1..Len(e_in) |-> TRUE])
    /\ e_sent' = EncodePathPreservingSegments(e_arg')
    /\ e_pc' = "done"
    /\ UNCHANGED e_in

\* the path arrives with some of its characters percent-encoded
EncodePartlyEncodedPath ==
    /\ e_pc = "call"
    /\ \E marked \in [1..Len(e_in) -> BOOLEAN] :
         /\ \E i \in 1..Len(e_in) : marked[i]
         /\ \E i \in 1..Len(e_in) : ~marked[i]
         /\ e_arg' = EncodedAt(e_in, marked)
    /\ e_form' = "partial"
    /\ e_text' = e_in
    /\ e_sent' = EncodePathPreservingSegments(e_arg')
    /\ e_pc' = "done"
    /\ UNCHANGED e_in

(***************************************************************************)
(* url_parser.parse_repo_url, called on its own                            *)
(***************************************************************************)
\* The text of a url is a sequence of pieces: a word, or one of the marks
\* ":", "/", ".", "?", "#", " ", "%".  A piece written with a leading "~" is
\* the same piece in full-width characters.
WidePairs ==
    { <<"https", "~https">>, <<"HTTPS", "~HTTPS">>, <<":", "~:">>, <<"/", "~/">>,
      <<".", "~.">>, <<"github", "~github">>, <<"com", "~com">>, <<"o", "~o">>,
      <<"blob", "~blob">>, <<"main", "~main">> }

UpperPairs ==
    { <<"https", "HTTPS">>, <<"github", "GitHub">>, <<"com", "COM">>,
      <<"www", "WWW">>, <<"raw", "Raw">>, <<"main", "Main">>, <<"blob", "BLOB">> }

NfkcNothing(s) == s

\* lines 32-34: unicodedata.normalize("NFKC", s)
Nfkc(s) ==
    [i \in 1..Len(s) |->
        IF \E pr \in WidePairs : pr[2] = s[i]
        THEN (CHOOSE pr \in WidePairs : pr[2] = s[i])[1]
        ELSE s[i]]

\* str.lower
ToLower(s) ==
    [i \in 1..Len(s) |->
        IF \E pr \in UpperPairs : pr[2] = s[i]
        THEN (CHOOSE pr \in UpperPairs : pr[2] = s[i])[1]
        ELSE s[i]]

\* str.strip
RECURSIVE Strip(_)
Strip(s) ==
    IF s # <<>> /\ s[1] = " " THEN Strip(Tail(s))
    ELSE IF s # <<>> /\ s[Len(s)] = " " THEN Strip(SubSeq(s, 1, Len(s) - 1))
    ELSE s

\* str.startswith
HasPrefix(s, pre) == Len(s) >= Len(pre) /\ SubSeq(s, 1, Len(pre)) = pre

\* the first place of one of the pieces in a text, 0 without one
FirstOf(s, marks) ==
    IF \E i \in 1..Len(s) : s[i] \in marks
    THEN CHOOSE i \in 1..Len(s) : s[i] \in marks /\ \A h \in 1..(i - 1) : s[h] \notin marks
    ELSE 0

\* sub in s
Contains(s, sub) ==
    \E i \in 0..(Len(s) - Len(sub)) : SubSeq(s, i + 1, i + Len(sub)) = sub

GithubHost == <<"github", ".", "com">>

RawHost == <<"raw", ".", "github", "usercontent", ".", "com">>

\* the pieces that cannot stand in a scheme
NotSchemeChars == {"/", "?", "#", " ", ":", "%", "git@"}

\* the value of F at v, with v worked out once
Once(F(_), v) == CHOOSE r \in {F(x) : x \in {v}} : TRUE

\* urlsplit: the scheme and what follows it
SplitScheme(url) ==
    LET c == FirstOf(url, {":"})
        hasScheme == c > 1 /\ \A h \in 1..(c - 1) : url[h] \notin NotSchemeChars
    IN [scheme |-> IF hasScheme THEN ToLower(SubSeq(url, 1, c - 1)) ELSE <<>>,
        rest |-> IF hasScheme THEN SubSeq(url, c + 1, Len(url)) ELSE url]

\* urlsplit: the netloc and what follows it
SplitNetloc(s) ==
    LET hasNetloc == HasPrefix(s.rest, <<"/", "/">>)
        after == IF hasNetloc THEN SubSeq(s.rest, 3, Len(s.rest)) ELSE s.rest
        e == IF hasNetloc THEN FirstOf(after, {"/", "?", "#"}) ELSE 1
    IN [scheme |-> s.scheme,
        netloc |-> IF ~hasNetloc THEN <<>>
                   ELSE IF e = 0 THEN after ELSE SubSeq(after, 1, e - 1),
        tail |-> IF ~hasNetloc THEN after
                 ELSE IF e = 0 THEN <<>> ELSE SubSeq(after, e, Len(after))]

\* urlsplit: path, query and fragment
SplitTail(n) ==
    LET f == FirstOf(n.tail, {"#"})
        noFrag == IF f = 0 THEN n.tail ELSE SubSeq(n.tail, 1, f - 1)
        q == FirstOf(noFrag, {"?"})
    IN [scheme |-> n.scheme,
        netloc |-> n.netloc,
        path |-> IF q = 0 THEN noFrag ELSE SubSeq(noFrag, 1, q - 1),
        query |-> IF q = 0 THEN <<>> ELSE SubSeq(noFrag, q + 1, Len(noFrag)),
        fragment |-> IF f = 0 THEN <<>> ELSE SubSeq(n.tail, f + 1, Len(n.tail))]

\* urllib.parse.urlsplit
UrlSplit(url) == Once(SplitTail, Once(SplitNetloc, Once(SplitScheme, url)))

\* urllib.parse.urlunsplit((scheme, netloc, path, "", ""))
UrlUnsplit(scheme, netloc, path) ==
    LET withNetloc ==
            IF netloc # <<>>
               \/ (scheme \in {<<"https">>, <<"http">>, <<"ftp">>}
                     /\ ~HasPrefix(path, <<"/", "/">>))
            THEN <<"/", "/">> \o netloc
                 \o (IF path # <<>> /\ path[1] # "/" THEN <<"/">> ELSE <<>>) \o path
            ELSE path
    IN IF scheme # <<>> THEN scheme \o <<":">> \o withNetloc ELSE withNetloc

\* lines 53-58: the scp-like form
FromScpLike(url) ==
    LET owner_repo == SubSeq(url, 6, Len(url))
    IN <<"https", ":", "/", "/">> \o GithubHost \o <<"/">>
       \o (IF owner_repo # <<>> /\ owner_repo[Len(owner_repo)] = ".git"
           THEN SubSeq(owner_repo, 1, Len(owner_repo) - 1) ELSE owner_repo)

\* lines 59-65: a text without scheme that starts with a known host
WithScheme(url) ==
    IF HasPrefix(ToLower(url), <<"www", ".">> \o GithubHost \o <<"/">>)
    THEN <<"https", ":", "/", "/">> \o SubSeq(url, 3, Len(url))
    ELSE IF \/ HasPrefix(ToLower(url), GithubHost \o <<"/">>)
            \/ HasPrefix(ToLower(url), RawHost \o <<"/">>)
    THEN <<"https", ":", "/", "/">> \o url
    ELSE url

\* lines 53-65, on the normalised and stripped text
CompletedFrom(u) ==
    IF HasPrefix(u, <<"git@">> \o GithubHost \o <<":">>) THEN FromScpLike(u)
    ELSE IF UrlSplit(u).scheme = <<>> THEN WithScheme(u)
    ELSE u

\* lines 51-65
Completed(url) == Once(CompletedFrom, Strip(Nfkc(url)))

\* lines 69-73: the netloc in lower case, without a leading www.
Netloc(parts) ==
    IF ToLower(parts.netloc) = <<"www", ".">> \o GithubHost THEN GithubHost
    ELSE ToLower(parts.netloc)

\* lines 69-78, on the parts of the completed url
CleanFrom(parts) ==
    LET clean == UrlUnsplit(ToLower(parts.scheme), Netloc(parts), parts.path)
    IN IF clean # <<>> /\ clean[Len(clean)] = ".git"
       THEN SubSeq(clean, 1, Len(clean) - 1) ELSE clean

\* lines 67-78
CleanUrl(url) == Once(CleanFrom, UrlSplit(Completed(url)))

\* the segments after ^https?://<host>/ of a text that starts so, else none
SegmentsAfter(clean, host) ==
    IF \E s \in {"https", "http"} :
          HasPrefix(ToLower(clean), <<s, ":", "/", "/">> \o host \o <<"/">>)
    THEN Split(SubSeq(clean, FirstOf(clean, {":"}) + 4 + Len(host), Len(clean)))
    ELSE <<>>

\* "/".join of the segments from the i-th on
RestFrom(segs, i) == IF i > Len(segs) THEN <<>> ELSE Join(SubSeq(segs, i, Len(segs)))

NoBranch == <<>>

RepoRef(owner, repo, hasBranch, b, p) ==
    [kind |-> "ok", owner |-> owner, repo |-> repo, has_branch |-> hasBranch,
     branch |-> b, path |-> p]

ParseError(kind) ==
    [kind |-> kind, owner |-> <<>>, repo |-> <<>>, has_branch |-> FALSE,
     branch |-> NoBranch, path |-> <<>>]

\* lines 12-15 and 81-88: BLOB_RE
MatchesBlob(clean) ==
    LET segs == SegmentsAfter(clean, GithubHost)
    IN /\ Len(segs) >= 5
       /\ segs[1] # <<>> /\ segs[2] # <<>> /\ segs[4] # <<>>
       /\ ToLower(segs[3]) = <<"blob">>
       /\ RestFrom(segs, 5) # <<>>

\* lines 16-19 and 91-98: RAW_RE
MatchesRaw(clean) ==
    LET segs == SegmentsAfter(clean, RawHost)
    IN /\ Len(segs) >= 4
       /\ segs[1] # <<>> /\ segs[2] # <<>> /\ segs[3] # <<>>
       /\ RestFrom(segs, 4) # <<>>

\* lines 20-23 and 101-108: TREE_RE
MatchesTree(clean) ==
    LET segs == SegmentsAfter(clean, GithubHost)
    IN /\ Len(segs) >= 4
       /\ segs[1] # <<>> /\ segs[2] # <<>> /\ segs[4] # <<>>
       /\ ToLower(segs[3]) = <<"tree">>

\* lines 24-27 and 111-113: REPO_RE
MatchesRepo(clean) ==
    LET segs == SegmentsAfter(clean, GithubHost)
    IN /\ Len(segs) \in {2, 3}
       /\ segs[1] # <<>> /\ segs[2] # <<>>
       /\ Len(segs) = 3 => segs[3] = <<>>

\* line 115
LooksLikeGithub(clean) == Contains(clean, GithubHost) \/ Contains(clean, RawHost)

\* lines 80-118 on the clean url, the ValueError given as a record
MatchClean(clean) ==
    LET g == SegmentsAfter(clean, GithubHost)
        r == SegmentsAfter(clean, RawHost)
    IN IF MatchesBlob(clean)
       THEN RepoRef(g[1], g[2], TRUE, g[4], Unquote(RestFrom(g, 5)))
       ELSE IF MatchesRaw(clean)
       THEN RepoRef(r[1], r[2], TRUE, r[3], Unquote(RestFrom(r, 4)))
       ELSE IF MatchesTree(clean)
       THEN RepoRef(g[1], g[2], TRUE, g[4], Unquote(RestFrom(g, 5)))
       ELSE IF MatchesRepo(clean)
       THEN RepoRef(g[1], g[2], FALSE, NoBranch, <<>>)
       ELSE IF LooksLikeGithub(clean) THEN ParseError("unsupported")
       ELSE ParseError("unrecognized")

\* lines 46-118
ParseRepoUrlText(url) == Once(MatchClean, CleanUrl(url))

\* The supported shapes; "treeroot" is a tree url without a path.
UrlShapes == {"blob", "raw", "tree", "treeroot", "repo"}

HostOf(shape) == IF shape = "raw" THEN RawHost ELSE GithubHost

\* what follows the host in the canonical url of a shape
AfterHost(shape) ==
    CASE shape = "blob" ->
           <<"/", "o", "/", "r", "/", "blob", "/", "br", "/", "src", "%", "2", "5", "/",
             "Main", ".c">>
      [] shape = "raw" ->
           <<"/", "o", "/", "r", "/", "br", "/", "src", "/", "main", ".c">>
      [] shape = "tree" -> <<"/", "o", "/", "r", "/", "tree", "/", "br", "/", "src">>
      [] shape = "treeroot" -> <<"/", "o", "/", "r", "/", "tree", "/", "br">>
      [] shape = "repo" -> <<"/", "o", "/", "r">>

Canonical(shape) == <<"https", ":", "/", "/">> \o HostOf(shape) \o AfterHost(shape)

\* the pieces written in full-width characters
Widened(s, pieces) ==
    [i \in 1..Len(s) |->
        IF s[i] \in pieces /\ \E pr \in WidePairs : pr[1] = s[i]
        THEN (CHOOSE pr \in WidePairs : pr[1] = s[i])[2]
        ELSE s[i]]

WidePieces(level) ==
    CASE level = "none" -> {}
      [] level = "scheme" -> {"https", "HTTPS", ":"}
      [] level = "marks" -> {":", "/", "."}
      [] level = "all" -> {pr[1] : pr \in WidePairs}

\* the ways a url is written: the scheme kept, in capitals or left out, the
\* host kept, in capitals or with www., a query, a fragment, blanks around,
\* full-width characters, and for a repository root the .git and scp forms
Writings ==
    [form : {"web", "dotgit", "scp", "scpgit"},
     scheme : {"keep", "upper", "drop"},
     host : {"keep", "upper", "www", "WWW"},
     query : BOOLEAN, fragment : BOOLEAN, blanks : BOOLEAN,
     wide : {"none", "scheme", "marks", "all"}]

WritingsOf(shape) ==
    { w \in Writings :
        /\ shape # "repo" => w.form = "web"
        /\ shape = "raw" => w.host \in {"keep", "upper"}
        /\ w.form \in {"scp", "scpgit"}
             => (w.scheme = "keep" /\ w.host = "keep" /\ ~w.query /\ ~w.fragment) }

Written(shape, w) ==
    LET s == CASE w.scheme = "keep" -> <<"https", ":", "/", "/">>
               [] w.scheme = "upper" -> <<"HTTPS", ":", "/", "/">>
               [] w.scheme = "drop" -> <<>>
        h == CASE w.host = "keep" -> HostOf(shape)
               [] w.host = "upper" ->
                    IF shape = "raw"
                    THEN <<"Raw", ".", "GitHub", "usercontent", ".", "COM">>
                    ELSE <<"GitHub", ".", "COM">>
               [] w.host = "www" -> <<"www", ".">> \o GithubHost
               [] w.host = "WWW" -> <<"WWW", ".", "GitHub", ".", "com">>
        web == s \o h \o AfterHost(shape)
               \o (IF w.form = "dotgit" THEN <<".git">> ELSE <<>>)
               \o (IF w.query THEN <<"?", "tab">> ELSE <<>>)
               \o (IF w.fragment THEN <<"#", "L1">> ELSE <<>>)
        scp == <<"git@">> \o GithubHost \o <<":", "o", "/", "r">>
               \o (IF w.form = "scpgit" THEN <<".git">> ELSE <<>>)
        text == Widened(IF w.form \in {"scp", "scpgit"} THEN scp ELSE web,
                        WidePieces(w.wide))
    IN IF w.blanks THEN <<" ">> \o text \o <<" ">> ELSE text

\* texts that are no supported url
OtherUrls ==
    { <<"https", ":", "/", "/", "github", ".", "com", "/", "o">>,
      <<"https", ":", "/", "/", "github", ".", "com", "/", "o", "/", "r", "/", "issues", "/", "x">>,
      <<"https", ":", "/", "/", "github", ".", "com", "/", "o", "/", "r", "/", "blob", "/", "br", "/">>,
      <<"https", ":", "/", "/", "raw", ".", "github", "usercontent", ".", "com", "/", "o", "/", "r", "/", "br">>,
      <<"ftp", ":", "/", "/", "github", ".", "com", "/", "o", "/", "r">>,
      <<"git@", "github", ".", "com", ":", "o">>,
      <<"https", ":", "/", "/", "gitlab", ".", "com", "/", "o", "/", "r">>,
      <<"gitlab", ".", "com", "/", "o", "/", "r">>,
      <<"hello">>,
      <<"https", ":", "/", "/", "gist", ".", "github", ".", "com", "/", "o", "/", "x">>,
      <<"gist", ".", "github", ".", "com", "/", "o", "/", "x">>,
      <<"https", ":", "/", "/", "not", "github", ".", "com", "/", "o", "/", "r">>,
      <<"https", ":", "/", "/", "gitlab", ".", "com", "/", "github", ".", "com", "/", "o", "/", "r">>,
      <<"https", ":", "/", "/", "gitlab", ".", "com", "/", "GitHub", ".", "com", "/", "o">> }

ParseIdle ==
    /\ u_pc = "idle"
    /\ u_shape = "none"
    /\ u_in = <<>>
    /\ parsed = ParseError("none")

ParseInit ==
    /\ u_pc = "call"
    /\ \/ /\ u_shape \in UrlShapes
          /\ \E w \in WritingsOf(u_shape) : u_in = Written(u_shape, w)
       \/ /\ u_shape = "other"
          /\ u_in \in OtherUrls
    /\ parsed = ParseError("none")

\* lines 80-113: one of the four patterns matches
ParseMatches ==
    /\ u_pc = "call"
    /\ ParseRepoUrlText(u_in).kind = "ok"
    /\ parsed' = ParseRepoUrlText(u_in)
    /\ u_pc' = "done"
    /\ UNCHANGED <<u_shape, u_in>>

\* lines 115-116
ParseUnsupportedShape ==
    /\ u_pc = "call"
    /\ ParseRepoUrlText(u_in).kind = "unsupported"
    /\ parsed' = ParseRepoUrlText(u_in)
    /\ u_pc' = "done"
    /\ UNCHANGED <<u_shape, u_in>>

\* lines 117-118
ParseUnrecognized ==
    /\ u_pc = "call"
    /\ ParseRepoUrlText(u_in).kind = "unrecognized"
    /\ parsed' = ParseRepoUrlText(u_in)
    /\ u_pc' = "done"
    /\ UNCHANGED <<u_shape, u_in>>

(***************************************************************************)
(* grade_runner: collect_sources_with_single_main, called on its own       *)
(***************************************************************************)
\* A file under src_dir: its path relative to src_dir and whether its text
\* matches MAIN_PATTERN.  The directories are those the paths go through.
SrcFile(p, m) == [path |-> p, main |-> m]

\* the files a source directory may hold, in the order of a listing
SrcFiles ==
    << SrcFile(<<"main", ".c">>, TRUE),
       SrcFile(<<"util", ".c">>, FALSE),
       SrcFile(<<"other", ".c">>, TRUE),
       SrcFile(<<".dot", ".c">>, FALSE),
       SrcFile(<<"UP", ".C">>, FALSE),
       SrcFile(<<"notes", ".h">>, TRUE),
       SrcFile(<<"sub", "/", "s", ".c">>, FALSE),
       SrcFile(<<"sub", "/", "t", ".c">>, TRUE),
       SrcFile(<<".hid", "/", "h", ".c">>, FALSE),
       SrcFile(<<"pkg", ".c", "/", "in", ".c">>, FALSE) >>

SrcDirs == SUBSET {SrcFiles[i] : i \in 1..Len(SrcFiles)}

\* the values of main_filename
MainFilenames ==
    { <<"main", ".c">>, <<".", "/", "main", ".c">>, <<"sub", "/", "s", ".c">>,
      <<"other", ".c">>, <<"pkg", ".c">>, <<".hid", "/", "h", ".c">> }

\* os.path.abspath(os.path.join(src_dir, p)), relative to src_dir: a leading
\* "./" is dropped
RECURSIVE AbsPath(_)
AbsPath(p) ==
    IF Len(p) >= 2 /\ p[1] = "." /\ p[2] = "/" THEN AbsPath(SubSeq(p, 3, Len(p)))
    ELSE p

\* the names that start with a dot
DotNames == {".dot", ".hid"}

\* fn.endswith('.c'), the case as it is
EndsWithDotC(p) == p # <<>> /\ p[Len(p)] = ".c"

\* the name of the entry of src_dir a path lies in or is
TopName(p) ==
    IF \E i \in 1..Len(p) : p[i] = "/"
    THEN SubSeq(p, 1, (CHOOSE i \in 1..Len(p) :
                          p[i] = "/" /\ \A h \in 1..(i - 1) : p[h] # "/") - 1)
    ELSE p

\* line 48: a path goes through a directory that os.walk does not enter
ThroughDotDir(p) ==
    \E i \in 1..Len(p) :
       /\ p[i] \in DotNames
       /\ i = 1 \/ p[i - 1] = "/"
       /\ \E j \in (i + 1)..Len(p) : p[j] = "/"

\* os.path.isfile
IsSrcFile(dir, p) == \E f \in dir : f.path = p

\* is_main_file (lines 22-30): a path that cannot be read as a file, such as
\* a directory, is taken as holding no main
IsMainFile(dir, p) == \E f \in dir : f.path = p /\ f.main

\* the files of the directory in the order of the listing
RECURSIVE ListingFrom(_, _, _)
ListingFrom(dir, i, reverse) ==
    IF i > Len(SrcFiles) THEN <<>>
    ELSE LET f == SrcFiles[IF reverse THEN Len(SrcFiles) + 1 - i ELSE i]
         IN (IF f \in dir THEN <<f.path>> ELSE <<>>) \o ListingFrom(dir, i + 1, reverse)

\* os.walk (lines 47-48): the files of src_dir and of the directories below
\* it whose name does not start with a dot
Walk(dir, reverse) ==
    SelectSeq(ListingFrom(dir, 1, reverse), LAMBDA p : ~ThroughDotDir(p))

\* os.listdir (line 59): the names of the entries of src_dir, files and
\* directories alike, each once
RECURSIVE NamesOf(_, _)
NamesOf(ps, seen) ==
    IF ps = <<>> THEN <<>>
    ELSE IF TopName(ps[1]) \in seen THEN NamesOf(Tail(ps), seen)
    ELSE <<TopName(ps[1])>> \o NamesOf(Tail(ps), seen \cup {TopName(ps[1])})

ListDir(dir, reverse) == NamesOf(ListingFrom(dir, 1, reverse), {})

\* lines 50-56 and 60-66: the names kept out of a listing
KeptFrom(dir, names, mainPath) ==
    SelectSeq(names, LAMBDA p : /\ EndsWithDotC(p)
                                /\ p # mainPath
                                /\ ~IsMainFile(dir, p))

\* lines 33-71
CollectSourcesWithSingleMain(dir, mainFilename, recursive, reverse) ==
    IF ~IsSrcFile(dir, AbsPath(mainFilename)) THEN <<>>
    ELSE <<AbsPath(mainFilename)>>
         \o KeptFrom(dir, IF recursive THEN Walk(dir, reverse)
                                       ELSE ListDir(dir, reverse),
                     AbsPath(mainFilename))

CollectIdle ==
    /\ s_pc = "idle"
    /\ s_dir = {}
    /\ s_main = <<>>
    /\ s_recursive = FALSE
    /\ s_reverse = FALSE
    /\ selected = <<>>

CollectInit ==
    /\ s_pc = "call"
    /\ s_dir \in SrcDirs
    /\ s_main \in MainFilenames
    /\ s_recursive \in BOOLEAN
    /\ s_reverse \in BOOLEAN
    /\ selected = <<>>

\* lines 38-40: the designated file is missing
CollectMainMissing ==
    /\ s_pc = "call"
    /\ ~IsSrcFile(s_dir, AbsPath(s_main))
    /\ selected' = CollectSourcesWithSingleMain(s_dir, s_main, s_recursive, s_reverse)
    /\ s_pc' = "done"
    /\ UNCHANGED <<s_dir, s_main, s_recursive, s_reverse>>

\* lines 46-57
CollectRecursive ==
    /\ s_pc = "call"
    /\ IsSrcFile(s_dir, AbsPath(s_main))
    /\ s_recursive
    /\ selected' = CollectSourcesWithSingleMain(s_dir, s_main, s_recursive, s_reverse)
    /\ s_pc' = "done"
    /\ UNCHANGED <<s_dir, s_main, s_recursive, s_reverse>>

\* lines 58-69
CollectFlat ==
    /\ s_pc = "call"
    /\ IsSrcFile(s_dir, AbsPath(s_main))
    /\ ~s_recursive
    /\ selected' = CollectSourcesWithSingleMain(s_dir, s_main, s_recursive, s_reverse)
    /\ s_pc' = "done"
    /\ UNCHANGED <<s_dir, s_main, s_recursive, s_reverse>>

(***************************************************************************)
(* The same student, processed side by side                                *)
(*                                                                         *)
(* Next to the run of FetchService, two more runs receive the same roster  *)
(* entry, configuration and remote responses: FetchService on an empty     *)
(* staging directory (t_files, t_meta, t_hint), and main of the legacy     *)
(* fetch_and_stage.py on the directory the service started from (l_meta,   *)
(* l_hint, l_paths).  The legacy stages the files the service stages       *)
(* whenever it picks an entry point: both use the directory scope then.    *)
(***************************************************************************)

\* fetch_and_stage.py, lines 371-421: the status recorded when the lookup
\* named by c raises
LegacyResolveFailureStatus(c) ==
    IF c = "default" THEN "default_branch_failed"
    ELSE IF c = "commit" THEN "commit_lookup_failed"
    ELSE "head_lookup_failed"

\* os.path.splitext(p)[1] is not empty
HasExtension(p) ==
    /\ Len(Basename(p)) >= 2
    /\ Basename(p)[Len(Basename(p))] \in {".c", ".h", ".C", ".H", ".txt", ".md"}

\* fetch_and_stage.py, lines 493-504
LegacyScopePrefix(ds, scope, r, meta_kind) ==
    IF ds.set THEN ds
    ELSE IF scope = "dir"
         THEN [set |-> TRUE,
               prefix |-> IF meta_kind = "file" THEN Dirname(r.path)
                          ELSE IF HasExtension(r.path) THEN Dirname(r.path)
                          ELSE r.path]
    ELSE [set |-> FALSE, prefix |-> NoPath]

\* the student's processing starts: the legacy finds the directory the
\* service finds
ShadowStart ==
    /\ t_files' = {}
    /\ t_meta' = EmptyMeta
    /\ t_hint' = NoHint
    /\ l_meta' = meta'
    /\ l_hint' = hint'
    /\ l_paths' = <<>>

\* record_failure (service.py) and _record_failure (fetch_and_stage.py)
ShadowFailure(legacy_status, status, hasDetail) ==
    /\ t_meta' = WriteJsonMerge(t_meta, FailurePayload(status, hasDetail))
    /\ l_meta' = WriteJsonMerge(l_meta, FailurePayload(legacy_status, hasDetail))
    /\ UNCHANGED <<t_files, t_hint, l_hint, l_paths>>

\* service.py lines 65-68, fetch_and_stage.py lines 435-443
ShadowHintOnly ==
    /\ t_hint' = MainHint(RepRel)
    /\ l_hint' = MainHint(RepRel)
    /\ UNCHANGED <<t_files, t_meta, l_meta, l_paths>>

\* service.py lines 70-89, fetch_and_stage.py lines 445-473
ShadowRepSaved ==
    /\ t_files' = KeepOriginal(SafeWrite(t_files, RenameTo, RepRel,
                                         BlobHasMain(entry.repo, RepRel)),
                               BlobHasMain(entry.repo, RepRel))
    /\ t_hint' = MainHint(RenameTo)
    /\ t_meta' = WriteJsonMerge(t_meta, [submitted_url |-> "url",
                                         submitted_kind |-> "non_c_file",
                                         submitted_path |-> RepRel, saved_as |-> RenameTo])
    /\ l_hint' = MainHint(RenameTo)
    /\ l_meta' = WriteJsonMerge(l_meta, [submitted_url |-> "url",
                                         submitted_kind |-> "non_c_file",
                                         submitted_path |-> RepRel, saved_as |-> RenameTo])
    /\ UNCHANGED l_paths

\* fetch_and_stage.py, lines 506-507: the tree is listed under the legacy's scope
ShadowTreeListed ==
    /\ l_paths' = FilterCHPaths(Tree(entry.repo),
                                LegacyScopePrefix(dir_scope, cfg.scope, ref, rep_meta))
    /\ UNCHANGED <<t_files, t_meta, t_hint, l_meta, l_hint>>

\* service.py lines 127-131 on the empty directory
ShadowFileWritten ==
    /\ t_files' = SafeWrite(t_files, Destination(paths[k], cfg.preserve_subdirs), paths[k],
                            BlobHasMain(entry.repo, paths[k]))
    /\ UNCHANGED <<t_meta, t_hint, l_meta, l_hint, l_paths>>

\* the sidecar and the hint after the entry point is looked for in fs
PickedMeta(current, fs) ==
    IF PickMainFromStaged(fs, dir_scope.prefix, paths).found
    THEN WriteJsonMerge(current,
            [submitted_url |-> "url",
             submitted_kind |-> IF rep_meta = "dir" THEN "dir" ELSE "repo",
             auto_picked_main |-> PickMainFromStaged(fs, dir_scope.prefix, paths).path])
    ELSE WriteJsonMerge(current, FailurePayload("auto_pick_main_failed", FALSE))

PickedHint(current, fs) ==
    IF PickMainFromStaged(fs, dir_scope.prefix, paths).found
    THEN MainHint(PickMainFromStaged(fs, dir_scope.prefix, paths).path)
    ELSE current

\* service.py lines 134-147, fetch_and_stage.py lines 543-566
ShadowPick ==
    /\ t_meta' = PickedMeta(t_meta, t_files)
    /\ t_hint' = PickedHint(t_hint, t_files)
    /\ l_meta' = PickedMeta(l_meta, files)
    /\ l_hint' = PickedHint(l_hint, files)
    /\ UNCHANGED <<t_files, l_paths>>

\* the sidecar after the test of line 149 (fetch_and_stage.py line 568)
FinalMeta(current, ps) ==
    IF NoSources(rep_saved, ps)
    THEN WriteJsonMerge(current, FailurePayload("no_sources_found", FALSE))
    ELSE current

\* service.py lines 149-156, fetch_and_stage.py lines 568-578
ShadowFinal ==
    /\ t_meta' = FinalMeta(t_meta, paths)
    /\ l_meta' = FinalMeta(l_meta, l_paths)
    /\ UNCHANGED <<t_files, t_hint, l_hint, l_paths>>

(***************************************************************************)
(* Specifications                                                          *)
(***************************************************************************)
\* the variables of the functions modelled on their own, while none is called
MoreIdle == EncodeIdle /\ CollectIdle /\ ParseIdle

GetStep ==
    \/ GetNetworkError /\ UNCHANGED <<commitVars, mainVars, pureVars>>
    \/ GetOk /\ UNCHANGED <<commitVars, mainVars, pureVars>>
    \/ GetRateLimited /\ UNCHANGED <<commitVars, mainVars, pureVars>>
    \/ GetOtherStatus /\ UNCHANGED <<commitVars, mainVars, pureVars>>
    \/ GetExhausted /\ UNCHANGED <<commitVars, mainVars, pureVars>>

CommitStep ==
    \/ CommitRequestFails /\ UNCHANGED <<getVars, mainVars, pureVars>>
    \/ CommitEmptyPage /\ UNCHANGED <<getVars, mainVars, pureVars>>
    \/ CommitFound /\ UNCHANGED <<getVars, mainVars, pureVars>>
    \/ CommitFollowNext /\ UNCHANGED <<getVars, mainVars, pureVars>>
    \/ CommitNoMorePages /\ UNCHANGED <<getVars, mainVars, pureVars>>

MainStep ==
    \/ SkipEntry /\ UNCHANGED shadowVars
         /\ UNCHANGED <<getVars, commitVars, pureVars>>
    \/ StartStudent /\ ShadowStart
         /\ UNCHANGED <<getVars, commitVars, pureVars>>
    \/ ParseFails /\ ShadowFailure("url_parse_failed", "url_parse_failed", TRUE)
         /\ UNCHANGED <<getVars, commitVars, pureVars>>
    \/ ParseOk /\ UNCHANGED shadowVars
         /\ UNCHANGED <<getVars, commitVars, pureVars>>
    \/ DefaultBranchOk /\ UNCHANGED shadowVars
         /\ UNCHANGED <<getVars, commitVars, pureVars>>
    \/ DefaultBranchFails /\ ShadowFailure(LegacyResolveFailureStatus("default"), ResolveFailureStatus(ref), TRUE)
         /\ UNCHANGED <<getVars, commitVars, pureVars>>
    \/ HeadLookupOk /\ UNCHANGED shadowVars
         /\ UNCHANGED <<getVars, commitVars, pureVars>>
    \/ HeadLookupFails /\ ShadowFailure(LegacyResolveFailureStatus("head"), ResolveFailureStatus(ref), TRUE)
         /\ UNCHANGED <<getVars, commitVars, pureVars>>
    \/ CommitLookupFound /\ UNCHANGED shadowVars
         /\ UNCHANGED <<getVars, commitVars, pureVars>>
    \/ CommitLookupNone /\ UNCHANGED shadowVars
         /\ UNCHANGED <<getVars, commitVars, pureVars>>
    \/ CommitLookupFails /\ ShadowFailure(LegacyResolveFailureStatus("commit"), ResolveFailureStatus(ref), TRUE)
         /\ UNCHANGED <<getVars, commitVars, pureVars>>
    \/ NoCommitBeforeLimit /\ ShadowFailure("no_commit_before_limit", "no_commit_before_limit", FALSE)
         /\ UNCHANGED <<getVars, commitVars, pureVars>>
    \/ EnterStaging /\ UNCHANGED shadowVars
         /\ UNCHANGED <<getVars, commitVars, pureVars>>
    \/ ProbeOk /\ UNCHANGED shadowVars
         /\ UNCHANGED <<getVars, commitVars, pureVars>>
    \/ ProbeFails /\ UNCHANGED shadowVars
         /\ UNCHANGED <<getVars, commitVars, pureVars>>
    \/ RepNotFile /\ UNCHANGED shadowVars
         /\ UNCHANGED <<getVars, commitVars, pureVars>>
    \/ RepHintOnly /\ ShadowHintOnly
         /\ UNCHANGED <<getVars, commitVars, pureVars>>
    \/ RepFetchOk /\ ShadowRepSaved
         /\ UNCHANGED <<getVars, commitVars, pureVars>>
    \/ RepFetchFails /\ ShadowFailure("representative_fetch_failed", "representative_fetch_failed", TRUE)
         /\ UNCHANGED <<getVars, commitVars, pureVars>>
    \/ ListTreeOk /\ ShadowTreeListed
         /\ UNCHANGED <<getVars, commitVars, pureVars>>
    \/ ListTreeFails /\ ShadowFailure("tree_list_failed", "tree_list_failed", TRUE)
         /\ UNCHANGED <<getVars, commitVars, pureVars>>
    \/ FileSkipped /\ UNCHANGED shadowVars
         /\ UNCHANGED <<getVars, commitVars, pureVars>>
    \/ FileFetchOk /\ ShadowFileWritten
         /\ UNCHANGED <<getVars, commitVars, pureVars>>
    \/ FileFetchFails /\ UNCHANGED shadowVars
         /\ UNCHANGED <<getVars, commitVars, pureVars>>
    \/ PickSkipped /\ UNCHANGED shadowVars
         /\ UNCHANGED <<getVars, commitVars, pureVars>>
    \/ PickOk /\ ShadowPick
         /\ UNCHANGED <<getVars, commitVars, pureVars>>
    \/ PickFails /\ ShadowPick
         /\ UNCHANGED <<getVars, commitVars, pureVars>>
    \/ StageNoSources /\ ShadowFinal
         /\ UNCHANGED <<getVars, commitVars, pureVars>>
    \/ StageSucceeds /\ ShadowFinal
         /\ UNCHANGED <<getVars, commitVars, pureVars>>
    \/ Summary /\ UNCHANGED shadowVars
         /\ UNCHANGED <<getVars, commitVars, pureVars>>

PickStep ==
    \/ PickMain /\ UNCHANGED <<getVars, commitVars, mainVars, mergeVars, moreVars>>

MergeStep ==
    \/ MergeWrite /\ UNCHANGED <<getVars, commitVars, mainVars, pickVars, moreVars>>
    \/ MergeRepeat /\ UNCHANGED <<getVars, commitVars, mainVars, pickVars, moreVars>>

InitGet == GetInit /\ CommitIdle /\ MainIdle /\ PickIdle /\ MergeIdle /\ MoreIdle

InitCommit == CommitInit /\ GetIdle /\ MainIdle /\ PickIdle /\ MergeIdle /\ MoreIdle

Init == MainInit /\ GetIdle /\ CommitIdle /\ PickIdle /\ MergeIdle /\ MoreIdle

InitPick == PickInit /\ GetIdle /\ CommitIdle /\ MainIdle /\ MergeIdle /\ MoreIdle

InitMerge == MergeInit /\ GetIdle /\ CommitIdle /\ MainIdle /\ PickIdle /\ MoreIdle

SpecGet == InitGet /\ [][GetStep]_vars

SpecCommit == InitCommit /\ [][CommitStep]_vars

Spec == Init /\ [][MainStep]_vars

SpecPick == InitPick /\ [][PickStep]_vars

SpecMerge == InitMerge /\ [][MergeStep]_vars

EncodeStep ==
    \/ EncodeListedPath /\ UNCHANGED <<getVars, commitVars, mainVars, pickVars, mergeVars, collectVars, parseVars>>
    \/ EncodeParsedPath /\ UNCHANGED <<getVars, commitVars, mainVars, pickVars, mergeVars, collectVars, parseVars>>
    \/ EncodeEncodedPath /\ UNCHANGED <<getVars, commitVars, mainVars, pickVars, mergeVars, collectVars, parseVars>>
    \/ EncodePartlyEncodedPath /\ UNCHANGED <<getVars, commitVars, mainVars, pickVars, mergeVars, collectVars, parseVars>>

InitEncode == EncodeInit /\ GetIdle /\ CommitIdle /\ MainIdle /\ PickIdle /\ MergeIdle /\ CollectIdle /\ ParseIdle

SpecEncode == InitEncode /\ [][EncodeStep]_vars

CollectStep ==
    \/ CollectMainMissing /\ UNCHANGED <<getVars, commitVars, mainVars, pickVars, mergeVars, encodeVars, parseVars>>
    \/ CollectRecursive /\ UNCHANGED <<getVars, commitVars, mainVars, pickVars, mergeVars, encodeVars, parseVars>>
    \/ CollectFlat /\ UNCHANGED <<getVars, commitVars, mainVars, pickVars, mergeVars, encodeVars, parseVars>>

InitCollect == CollectInit /\ GetIdle /\ CommitIdle /\ MainIdle /\ PickIdle /\ MergeIdle /\ EncodeIdle /\ ParseIdle

SpecCollect == InitCollect /\ [][CollectStep]_vars

ParseStep ==
    \/ ParseMatches /\ UNCHANGED <<getVars, commitVars, mainVars, pickVars, mergeVars, encodeVars, collectVars>>
    \/ ParseUnsupportedShape /\ UNCHANGED <<getVars, commitVars, mainVars, pickVars, mergeVars, encodeVars, collectVars>>
    \/ ParseUnrecognized /\ UNCHANGED <<getVars, commitVars, mainVars, pickVars, mergeVars, encodeVars, collectVars>>

InitParse == ParseInit /\ GetIdle /\ CommitIdle /\ MainIdle /\ PickIdle /\ MergeIdle /\ EncodeIdle /\ CollectIdle

SpecParse == InitParse /\ [][ParseStep]_vars

\* pick_main_from_staged on its own, and as _stage_student calls it
InitPicking == Init \/ InitPick

PickingStep == MainStep \/ PickStep

SpecPicking == InitPicking /\ [][PickingStep]_vars

(***************************************************************************)
(* Claims about GitHubClient._get                                          *)
(***************************************************************************)
\* progress measure of _get: grows with every step, at most MaxTries + 1
GetMeasure == requests + (IF g_pc = "done" THEN 1 ELSE 0)

\* C1: _get terminates for every sequence of responses: every step of the
\* call sends a request or ends the call, at most max_tries requests are
\* sent, a further request is sent only after a 403 or 429, any other non-200
\* response (or a transport error) ends the call with an error at once, and
\* after max_tries rate-limited responses the call fails with "exhausted
\* retries" without sending another request.
C1_GetTerminates ==
    /\ [](requests <= MaxTries /\ GetMeasure <= MaxTries + 1)
    /\ [][GetMeasure' > GetMeasure]_vars
    /\ []((g_pc = "loop") => ENABLED GetStep)
    /\ [][(requests' > requests /\ requests > 0) => lastStatus \in {403, 429}]_vars
    /\ []((lastStatus \notin {0, 200, 403, 429}) => (g_pc = "done" /\ g_result = "error"))
    /\ []((g_pc = "done") => (g_result \in {"ok", "error", "exhausted"}))
    /\ []((g_result = "ok") => (lastStatus = 200))
    /\ []((g_result = "exhausted") => (requests = MaxTries /\ lastStatus \in {403, 429}))
    /\ [][(g_pc = "loop" /\ requests = MaxTries)
            => (g_pc' = "done" /\ g_result' = "exhausted" /\ requests' = requests)]_vars

\* C1 witness: six rate-limited responses in a row, then the permanent failure
C1_Witness ==
    g_pc = "done" /\ g_result = "exhausted" /\ requests = MaxTries /\ nSleeps = MaxTries

\* C2: after a 403/429 that carries a rate-limit-reset given in digits, the
\* sleep before the next attempt is max(0, reset_epoch - now + 1), whatever
\* the backoff value; a first response 429/403 with a reset 5 seconds ahead
\* followed by a 200 gives one sleep of 5 + 1 seconds, two requests, success.
C2_ResetHintSleep ==
    /\ (nSleeps >= 1 /\ lastReset.kind = "digits")
          => lastSleep = (IF lastReset.val - lastNow + 1 > 0
                          THEN lastReset.val - lastNow + 1 ELSE 0)
    /\ (requests = 2 /\ g_result = "ok" /\ lastReset.kind = "digits"
           /\ lastReset.val = lastNow + 5)
          => (nSleeps = 1 /\ lastSleep = 6 /\ now >= lastNow + 6)

\* C2 witness: the reset is 5 seconds ahead, one sleep, then the 200
C2_Witness ==
    /\ requests = 2 /\ g_result = "ok" /\ nSleeps = 1
    /\ lastReset.kind = "digits" /\ lastReset.val = lastNow + 5
    /\ lastSleep = 6 /\ lastSleep # lastBackoff

(***************************************************************************)
(* Claims about GitHubClient.get_commit_before                             *)
(***************************************************************************)
\* the commit at position i of the page requested last is at or before the
\* cutoff, as UTC instants
AtOrBeforeCutoff(i) == page[i].local - page[i].off <= cutoff

\* C3: with a cutoff, get_commit_before returns the first commit, in the
\* newest-first order of the history, whose committer instant is <= the cutoff
\* (an instant equal to the cutoff qualifies): the commit returned lies on the
\* page requested last, no commit before it on that page and no commit of an
\* earlier page qualifies, and the next-page link is followed only when the
\* current page holds no qualifying commit.
C3_FirstCommitAtOrBeforeCutoff ==
    /\ (c_pc = "done" /\ c_result.kind = "sha")
          => \E i \in 1..Len(page) :
                /\ c_result.sha = <<pageNo, i>>
                /\ page[i].sha = c_result.sha
                /\ AtOrBeforeCutoff(i)
                /\ \A j \in 1..(i - 1) : ~AtOrBeforeCutoff(j)
                /\ ~earlierQual
    /\ (c_pc = "done" /\ c_result.kind = "none")
          => /\ \A i \in 1..Len(page) : ~AtOrBeforeCutoff(i)
             /\ ~earlierQual
             /\ (page = <<>> \/ ~hasNext)
    /\ (c_pc = "request" /\ pageNo >= 1)
          => /\ \A i \in 1..Len(page) : ~AtOrBeforeCutoff(i)
             /\ ~earlierQual
             /\ page # <<>> /\ hasNext

\* C3 witness: the first page holds no qualifying commit, the second page's
\* second commit has exactly the cutoff as its instant and is returned
C3_Witness ==
    /\ c_pc = "done" /\ pageNo = 2 /\ Len(page) = 2
    /\ c_result.kind = "sha" /\ c_result.sha = <<2, 2>>
    /\ page[2].local - page[2].off = cutoff
    /\ page[1].local - page[1].off > cutoff

(***************************************************************************)
(* Claims about FetchService.run_for_map and _stage_student                *)
(***************************************************************************)
\* the processing of a student has ended and no other student was started since
StudentEnded == pc \in {"loop", "done"} /\ finished >= 1

\* _stage_student has returned for the student processed last
StagingEnded == StudentEnded /\ ok # "none"

\* the statuses recorded for the student, as a set
Recorded == {recorded[i] : i \in 1..Len(recorded)}

\* the remote calls of the staging stage
StagingCalls == {"probe", "tree", "raw"}

\* C4: when no commit of the branch is at or before the cutoff, the commit
\* resolution ends with the value None and not with an error: the only status
\* recorded for the student is no_commit_before_limit, no content probe, tree
\* listing or file fetch is issued, no file and no hint is written, and
\* _stage_student is not entered.
C4_NoCommitBeforeLimit ==
    (cause = "no_commit" /\ pc # "check_sha")
       => /\ StudentEnded
          /\ sha = None
          /\ recorded = <<"no_commit_before_limit">>
          /\ "status" \in DOMAIN meta /\ meta["status"] = "no_commit_before_limit"
          /\ calls \cap StagingCalls = {}
          /\ loopWrites = 0 /\ repCopies = 0 /\ hintWrites = 0
          /\ files \in {{}, StaleFiles}
          /\ ok = "none"

\* C4 witness: a bare repository url, the default branch resolved, no commit
\* at or before the cutoff
C4_Witness ==
    /\ StudentEnded /\ cause = "no_commit" /\ ref.branch = None
    /\ calls = {"default_branch", "commits"}
    /\ recorded = <<"no_commit_before_limit">>

\* C5: default_branch_failed is recorded for a student exactly when the
\* reference has no branch and the default-branch lookup itself fails; a
\* failure of the head lookup or of the commit-history lookup is never
\* recorded as default_branch_failed, and a failed head lookup of a branch
\* named by the url is recorded as head_lookup_failed.
C5_DefaultBranchFailedOnlyForDefaultBranch ==
    StudentEnded
       => /\ ("default_branch_failed" \in Recorded)
                <=> (ref.branch = None /\ cause = "default_branch")
          /\ (ref.branch # None /\ cause = "head") => (recorded = <<"head_lookup_failed">>)

\* C6: a failure of the commit-history request, with a cutoff configured, is
\* recorded as commit_lookup_failed, and not as another status of the taxonomy.
C6_CommitLookupFailedRecorded ==
    (StudentEnded /\ cause = "commit_lookup")
       => /\ recorded = <<"commit_lookup_failed">>
          /\ meta["status"] = "commit_lookup_failed"

\* C7: a failure at the resolution stage (url parse, default branch, head or
\* history lookup, no qualifying commit) ends the student's processing: once
\* the failure is recorded, no content probe, tree listing or raw fetch is
\* issued and no .main_filename is written for that student.
C7_ResolutionFailureShortCircuits ==
    (cause # "none")
       => /\ pc \in {"check_sha", "loop", "done"}
          /\ (pc # "check_sha") => (StudentEnded /\ Len(recorded) = 1)
          /\ calls \cap StagingCalls = {}
          /\ hintWrites = 0 /\ loopWrites = 0 /\ repCopies = 0
          /\ ok = "none"

\* C7 witness: the head lookup of a named branch failed and the student ended
C7_Witness ==
    /\ StudentEnded /\ cause = "head" /\ ref.branch # None
    /\ recorded = <<"head_lookup_failed">> /\ calls = {"head"}

\* position in the run, growing with every step
PcRank ==
    CASE pc = "loop" -> 0
      [] pc = "parse" -> 1
      [] pc = "default_branch" -> 2
      [] pc = "commit" -> 3
      [] pc = "check_sha" -> 4
      [] pc = "probe" -> 5
      [] pc = "rep" -> 6
      [] pc = "tree" -> 7
      [] pc = "files" -> 8
      [] pc = "final" -> 9
      [] OTHER -> 10

RunMeasure == idx * 1000 + PcRank * 10 + (IF pc = "files" THEN k ELSE 0)

\* C8: run_for_map never stops early: the roster entries are read in order,
\* every entry with an id and a url is processed to its end before the next
\* one is read, whatever failed for it, every step of the run is followed by
\* another one until the summary, the summary comes after the last roster
\* entry, and the count it reports is the number of students for which
\* _stage_student returned success.
C8_RunNeverStopsEarly ==
    /\ [](pc # "done" => ENABLED MainStep)
    /\ [][RunMeasure' > RunMeasure]_vars
    /\ [](idx = eligible + skipped + (IF pc \in {"loop", "done"} THEN 1 ELSE 0))
    /\ [](finished = eligible - (IF pc \in {"loop", "done"} THEN 0 ELSE 1))
    /\ [](staged_students = okReturns)
    /\ [](pc = "done" => /\ eligible + skipped = NStudents
                         /\ finished = eligible
                         /\ reported = okReturns)
    /\ [](pc # "done" => reported = -1)

\* C8 witness: a run with a failed student and a staged one, ended by the summary
C8_Witness ==
    /\ pc = "done" /\ finished = NStudents /\ reported = 1
    /\ ok = "true" /\ okReturns = 1

\* the enumerated paths, as a set
PathSet == {paths[i] : i \in 1..Len(paths)}

\* C9: a failed fetch of an enumerated path does not abort the staging of the
\* student.  With N >= 1 enumerated paths, none of them skipped, and k failed
\* fetches: all N paths are attempted in their order, N - k files are written
\* (with subdirectories preserved, exactly the paths that did not fail), a
\* failed fetch records nothing in the sidecar, and _stage_student returns
\* success.
C9_FetchFailureIsLocal ==
    /\ []((StagingEnded /\ paths # <<>> /\ PathSet \cap skip_paths = {})
            => /\ attempted = paths
               /\ loopWrites = Len(paths) - Cardinality(failed)
               /\ staged_count = Len(paths) - Cardinality(failed)
               /\ cfg.preserve_subdirs
                    => \A p \in PathSet :
                          (\E f \in files : f.path = p /\ f.src = p) <=> (p \notin failed)
               /\ ok = "true")
    /\ [][(failed' # failed /\ failed \subseteq failed')
            => (meta' = meta /\ recorded' = recorded /\ pc' = pc)]_vars

\* C9 witness: three enumerated paths, the fetch of the first one failed, the
\* other two were written
C9_Witness ==
    /\ StagingEnded /\ ok = "true"
    /\ Len(paths) = 3 /\ skip_paths = {}
    /\ failed = {paths[1]}
    /\ loopWrites = 2 /\ attempted = paths

\* C10: _stage_student records no_sources_found and returns failure exactly
\* when no copy of the representative was saved and no source/header path was
\* enumerated (which includes a failed tree listing); otherwise it returns
\* success and the student is counted.
C10_NoSourcesFoundExactly ==
    /\ StagingEnded
         => /\ (ok = "false") <=> (repCopies = 0 /\ Len(paths) = 0)
            /\ (ok = "false") <=> ("no_sources_found" \in Recorded)
            /\ (ok = "false") => (meta["status"] = "no_sources_found")
            /\ ("tree_list_failed" \in Recorded) => (paths = <<>>)
    /\ staged_students = okReturns
    /\ (pc = "loop" /\ ok = "true") => staged_students >= 1

\* C10 witness: the representative was saved, the tree listing failed, and the
\* student is staged
C10_Witness ==
    /\ StagingEnded /\ ok = "true" /\ repCopies = 1
    /\ "tree_list_failed" \in Recorded /\ paths = <<>>

(***************************************************************************)
(* Claims about the entry point and the sidecar                            *)
(***************************************************************************)
\* C11: when the processing of a student ends, at most one entry point was
\* recorded for the student during the run, and when none was recorded the
\* sidecar carries a failure status written during the run, whatever the
\* content probe answered.
C11_EntryPointOrFailure ==
    StudentEnded
       => /\ hintWrites <= 1
          /\ (hintWrites = 0)
                => /\ recorded # <<>>
                   /\ "status" \in DOMAIN meta
                   /\ meta["status"] \in Recorded

\* C12: when the processing of a student ends and .main_filename was written
\* during the run, the path it holds names a file that exists under the
\* student's staging root.
C12_HintNamesStagedFile ==
    (StudentEnded /\ hintWrites >= 1)
       => (hint.present /\ IsFile(files, hint.path))

(***************************************************************************)
(* Claims about pick_main_from_staged                                      *)
(***************************************************************************)
\* the scope of the call, without its leading and trailing slashes
PickScope == StripSlash(p_scope)

\* the conventional entry point at the root of the scope: <scope>/main.c, or
\* main.c for an empty scope
Conventional ==
    IF PickScope = <<>> THEN <<"main", ".c">> ELSE PickScope \o <<"/", "main", ".c">>

\* the staged .c files under the scope that hold a main function on the disk
MainHolders ==
    {q \in PickPathSet :
        /\ \E i \in 1..Len(p_staged) : p_staged[i] = q
        /\ q[Len(q)] \in {".c", ".C"}
        /\ PickScope = <<>> \/ q = PickScope
              \/ (Len(q) > Len(PickScope)
                    /\ SubSeq(q, 1, Len(PickScope) + 1) = PickScope \o <<"/">>)
        /\ \E f \in p_fs : f.path = q /\ f.main}

\* C13: pick_main_from_staged returns <scope>/main.c (main.c for an empty
\* scope) whenever a file of that name exists at the root of the scope,
\* whatever that file and the other staged files contain.
C13_ConventionalNameWins ==
    (p_pc = "done" /\ \E f \in p_fs : f.path = Conventional)
       => p_result = [found |-> TRUE, path |-> Conventional]

\* C13 witness: src/main.c exists without a main function, src/a.c is the only
\* staged file with one, and src/main.c is returned
C13_Witness ==
    /\ p_pc = "done" /\ p_scope = <<"src">>
    /\ \E f \in p_fs : f.path = Conventional /\ ~f.main
    /\ MainHolders = {<<"src", "/", "a", ".c">>}
    /\ p_result = [found |-> TRUE, path |-> <<"src", "/", "main", ".c">>]

\* the directory scope of the student being staged, without its slashes
StageScope == StripSlash(dir_scope.prefix)

\* the conventional entry point at the root of that scope
StageConventional ==
    IF StageScope = <<>> THEN <<"main", ".c">> ELSE StageScope \o <<"/", "main", ".c">>

\* the enumerated .c files under that scope that hold a main function on the disk
StageMainHolders ==
    {q \in PathSet :
        /\ q[Len(q)] \in {".c", ".C"}
        /\ StageScope = <<>> \/ q = StageScope
              \/ (Len(q) > Len(StageScope)
                    /\ SubSeq(q, 1, Len(StageScope) + 1) = StageScope \o <<"/">>)
        /\ \E f \in files : f.path = q /\ f.main}

\* C14: without a conventional entry point at the root of the scope,
\* pick_main_from_staged picks a file exactly when one staged .c file under
\* the scope holds a main function, and picks that file; with none or with
\* several it picks nothing, not even the first of them, and _stage_student
\* then records auto_pick_main_failed and writes no .main_filename.
C14_UniqueMainOrFailure ==
    /\ (p_pc = "done" /\ ~\E f \in p_fs : f.path = Conventional)
          => /\ p_result.found <=> (Cardinality(MainHolders) = 1)
             /\ p_result.found => (p_result.path \in MainHolders)
             /\ ~p_result.found => (p_result.path = NoPath)
    /\ (pc = "final" /\ dir_scope.set /\ ~\E f \in files : f.path = StageConventional)
          => IF Cardinality(StageMainHolders) = 1
             THEN /\ hint.present /\ hint.path \in StageMainHolders
                  /\ hintWrites = 1
                  /\ meta["auto_picked_main"] = hint.path
                  /\ "auto_pick_main_failed" \notin Recorded
             ELSE /\ hintWrites = 0
                  /\ hint \in {NoHint, MainHint(RenameTo)}
                  /\ "auto_pick_main_failed" \in Recorded
                  /\ meta["status"] = "auto_pick_main_failed"

\* C14 witness: a repository whose two .c files both hold a main function,
\* both staged; nothing is picked and the failure is recorded
C14_Witness ==
    /\ pc = "final" /\ dir_scope.set
    /\ ~\E f \in files : f.path = StageConventional
    /\ Cardinality(StageMainHolders) = 2
    /\ hintWrites = 0 /\ ~hint.present
    /\ recorded = <<"auto_pick_main_failed">>

(***************************************************************************)
(* Claims about the collection scope and the representative file           *)
(***************************************************************************)
\* path q lies under the directory dir at a boundary of path segments; every
\* path lies under the empty directory, the whole repository
Under(q, dir) ==
    \/ dir = <<>>
    \/ Len(q) > Len(dir) /\ SubSeq(q, 1, Len(dir) + 1) = dir \o <<"/">>

\* the collection scope of the student: the referenced directory when the
\* representative is a directory or the repository root, else the whole
\* repository (scope=repo) or the directory that holds the referenced path
\* (scope=dir)
CollectionScope ==
    IF rep_meta = "dir" \/ ref.path = NoPath THEN StripSlash(ref.path)
    ELSE IF cfg.scope = "repo" THEN <<>>
    ELSE Dirname(ref.path)

\* the blobs of the commit tree of the student
TreeBlobs == {Tree(entry.repo)[i] : i \in {j \in 1..Len(Tree(entry.repo)) :
                                            Tree(entry.repo)[j].type = "blob"}}

\* C15: the paths enumerated for a student are exactly the blobs of the
\* commit tree whose name ends in .c or .h (in either case of the letters)
\* and that lie under the collection scope at a boundary of path segments.
C15_EnumeratedPathsAreTheScope ==
    (pc \in {"files", "final"} /\ "tree_list_failed" \notin Recorded)
       => /\ PathSet = {t.path : t \in {b \in TreeBlobs :
                                          /\ b.path[Len(b.path)] \in {".c", ".h", ".C", ".H"}
                                          /\ Under(b.path, CollectionScope)}}
          /\ \A i, j \in 1..Len(paths) : (paths[i] = paths[j]) => (i = j)

\* C15 witness: a tree url of the directory src with scope=repo: the files of
\* src are enumerated, the one of its sibling src2 and the README are not
C15_Witness ==
    /\ pc = "files" /\ cfg.scope = "repo" /\ rep_meta = "dir"
    /\ CollectionScope = <<"src">>
    /\ paths = << <<"src", "/", "main", ".c">>, <<"src", "/", "util", ".c">>,
                  <<"src", "/", "util", ".h">> >>
    /\ \E b \in TreeBlobs : b.path = <<"src", "2", "/", "x", ".c">>

\* the representative of the student is a file and its handling has ended
RepresentativeHandled == pc = "tree" /\ rep_meta = "file"

\* no copy of the representative was written, .main_filename holds its path
\* in the tree
HintedInPlace ==
    /\ repCopies = 0
    /\ "raw" \notin calls
    /\ files \in {{}, StaleFiles}
    /\ hint = MainHint(ref.path)

\* the representative was fetched and, unless the fetch failed, saved at the
\* staging root as rename_to, and .main_filename holds that name
FetchedAndRenamed ==
    /\ "raw" \in calls
    /\ ("representative_fetch_failed" \notin Recorded)
          => /\ repCopies = 1
             /\ \E f \in files : f.path = RenameTo /\ f.src = ref.path
             /\ hint = MainHint(RenameTo)

\* C16, as stated: a representative file is hinted in place when it is a
\* source file named as the conventional entry point (main.c) and force
\* rename is off; in every other case it is fetched and saved as rename_to.
C16_HintOnlyForConventionalName ==
    RepresentativeHandled
       => IF Basename(ref.path) = <<"main", ".c">> /\ ~cfg.force_rename
          THEN HintedInPlace
          ELSE FetchedAndRenamed

\* C16, amended: a representative file is hinted in place when its name ends
\* in .c, whatever the name, and force rename is off; in every other case it
\* is fetched and, unless the fetch fails, saved at the staging root as
\* rename_to with .main_filename holding that name; a failed fetch records
\* representative_fetch_failed and writes neither copy nor hint.
C16_HintOnlyForAnyCFile ==
    RepresentativeHandled
       => IF Lower(ref.path[Len(ref.path)]) = ".c" /\ ~cfg.force_rename
          THEN HintedInPlace
          ELSE /\ FetchedAndRenamed
               /\ ("representative_fetch_failed" \in Recorded)
                     => /\ repCopies = 0 /\ hintWrites = 0
                        /\ files \in {{}, StaleFiles}

\* C16 witness: the representative app/prog.c, not named main.c, without force
\* rename: nothing is fetched and .main_filename holds app/prog.c
C16_Witness ==
    /\ RepresentativeHandled /\ ~cfg.force_rename
    /\ ref.path = <<"app", "/", "prog", ".c">>
    /\ HintedInPlace /\ hintWrites = 1

\* the places under the staging root where the representative file was
\* written during the run
RepresentativePlaces == {f.path : f \in {g \in files : g.src = ref.path}}

\* C17, as stated: whatever keep_original and force_rename are and whatever
\* kind of file the representative is, it is never staged at two places.
C17_RepresentativeStagedOnce ==
    (rep_meta = "file") => (Cardinality(RepresentativePlaces) <= 1)

\* C17, amended: a .c representative is never staged at two places, whatever
\* keep_original and force_rename are: without force rename it is staged only
\* by the tree collection, with force rename only as rename_to at the root
\* (only by the tree collection when the fetch of the representative failed).
\* A representative that is not a .c file is saved as rename_to, with
\* keep_original also under its original name at the root, and a .h one also
\* by the tree collection.
C17_SourceRepresentativeStagedOnce ==
    (rep_meta = "file")
       => IF Lower(ref.path[Len(ref.path)]) = ".c"
          THEN /\ Cardinality(RepresentativePlaces) <= 1
               /\ RepresentativePlaces \subseteq
                     (IF cfg.force_rename /\ repCopies = 1 THEN {RenameTo}
                      ELSE {IF cfg.preserve_subdirs THEN ref.path ELSE Basename(ref.path)})
          ELSE RepresentativePlaces \subseteq
                  ({RenameTo}
                     \cup (IF cfg.keep_original THEN {Basename(ref.path)} ELSE {})
                     \cup (IF Lower(ref.path[Len(ref.path)]) = ".h"
                           THEN {IF cfg.preserve_subdirs THEN ref.path
                                 ELSE Basename(ref.path)}
                           ELSE {}))

\* C17 witness: src/main.c with force_rename and keep_original: it is saved as
\* main.c at the root, its path is skipped by the tree collection, and the
\* other files of the tree are staged
C17_Witness ==
    /\ StagingEnded /\ cfg.force_rename /\ cfg.keep_original /\ cfg.preserve_subdirs
    /\ ref.path = <<"src", "/", "main", ".c">>
    /\ RepresentativePlaces = {RenameTo}
    /\ ~IsFile(files, ref.path)
    /\ loopWrites >= 2

(***************************************************************************)
(* Claims about write_json_merge                                           *)
(***************************************************************************)
\* the calls, by their position in the log, whose patch names the key
WritersOf(key) == {i \in 1..Len(log) : key \in DOMAIN log[i]}

\* the keys written so far, by a call or before the first one
KeysWritten == DOMAIN m_initial \cup UNION {DOMAIN log[i] : i \in 1..Len(log)}

\* the value of the latest write of a key
LatestWrite(key) ==
    IF WritersOf(key) = {} THEN m_initial[key]
    ELSE log[CHOOSE i \in WritersOf(key) : \A j \in WritersOf(key) : j <= i][key]

\* C18: write_json_merge is a shallow merge over the existing sidecar: after
\* any sequence of calls the sidecar holds every key ever written with the
\* value of the latest write of that key (so disjoint keys are both present
\* and an overlapping key takes the later value), a call leaves the keys its
\* patch does not name as they were, and a call that repeats the patch of the
\* call before changes nothing.
C18_MergeKeepsLatestWrites ==
    /\ [](m_pc = "write"
            => /\ DOMAIN sidecar = KeysWritten
               /\ \A key \in KeysWritten : sidecar[key] = LatestWrite(key))
    /\ [][\A key \in DOMAIN sidecar :
             (key \notin DOMAIN log'[Len(log')]) => (key \in DOMAIN sidecar'
                                                      /\ sidecar'[key] = sidecar[key])]_vars
    /\ [][(log # <<>> /\ log'[Len(log')] = log[Len(log)]) => (sidecar' = sidecar)]_vars

\* C18 witness: over a sidecar that holds submitted_url, status is written,
\* then saved_as, then status again with another value: all three keys are
\* present, status with the later value
C18_Witness ==
    /\ m_pc = "write" /\ Len(log) = 3
    /\ DOMAIN m_initial = {"submitted_url"}
    /\ DOMAIN log[1] = {"status"} /\ log[1]["status"] = "v1"
    /\ DOMAIN log[2] = {"saved_as"}
    /\ DOMAIN log[3] = {"status"} /\ log[3]["status"] = "v2"
    /\ DOMAIN sidecar = {"submitted_url", "status", "saved_as"}
    /\ sidecar["status"] = "v2" /\ sidecar["submitted_url"] = "v0"
    /\ sidecar["saved_as"] = log[2]["saved_as"]

(***************************************************************************)
(* Claims about the sidecar of a student                                   *)
(***************************************************************************)
\* C19: after a roster entry with an id and a url was processed, the sidecar
\* of the student exists and holds submitted_url; for a student staged with
\* success it also holds submitted_kind and saved_as or auto_picked_main, for
\* a failed student status and failure_reason.
C19_SidecarKeys ==
    StudentEnded
       => /\ "submitted_url" \in DOMAIN meta
          /\ (ok = "true")
                => /\ "submitted_kind" \in DOMAIN meta
                   /\ "saved_as" \in DOMAIN meta \/ "auto_picked_main" \in DOMAIN meta
          /\ (ok # "true")
                => /\ "status" \in DOMAIN meta
                   /\ "failure_reason" \in DOMAIN meta

\* the failure statuses the sidecar of the student holds
SidecarStatuses == {meta[key] : key \in {"status"} \cap DOMAIN meta}

\* C20: every failure recorded while a student is processed is still in the
\* sidecar of the student when its processing ends; a failure recorded later
\* does not overwrite or hide one recorded earlier.
C20_RecordedFailuresPersist ==
    StudentEnded => (Recorded \subseteq SidecarStatuses)

\* C21: a student counted as staged with success ends with a sidecar that
\* carries no failure status, neither one recorded by an earlier step of the
\* run nor one left by an earlier run over the same staging directory.
C21_StagedStudentHasNoFailureStatus ==
    (StudentEnded /\ ok = "true") => ("status" \notin DOMAIN meta)

\* the files written under the staging root during the run of the student
WrittenThisRun == {f \in files : f.src # <<"old">>}

\* C28: a student is counted as staged with success only if at least one
\* file, a copy of the representative or a source/header file, was written
\* under its staging root during the run.
C28_StagedStudentHasAFile ==
    (StudentEnded /\ ok = "true")
       => /\ repCopies + loopWrites >= 1
          /\ WrittenThisRun # {}

\* 2 to the power n
RECURSIVE Pow2(_)
Pow2(n) == IF n = 0 THEN 1 ELSE 2 * Pow2(n - 1)

\* C27: within one call of _get, the k-th rate-limited response (every 403/429
\* of the call counts, with or without a hint) is followed by a sleep, also
\* the one of the last permitted attempt; without a reset given in digits
\* that sleep is min(2^(k-1), 60), and the backoff, which starts at 1 and
\* doubles after every rate-limited response, never exceeds 60.
C27_BackoffDoublesUpToCap ==
    /\ (nSleeps >= 1 /\ ~HasResetHint(lastReset))
          => lastSleep = Min(Pow2(nSleeps - 1), BackoffCap)
    /\ (nSleeps >= 1) => lastBackoff = Min(Pow2(nSleeps - 1), BackoffCap)
    /\ (g_pc # "idle") => /\ backoff = Min(Pow2(nSleeps), BackoffCap)
                          /\ backoff <= BackoffCap
                          /\ nSleeps <= MaxTries
    /\ (g_pc = "loop") => nSleeps = requests
    /\ (g_pc = "done" /\ g_result # "exhausted") => nSleeps = requests - 1
    /\ (g_result = "exhausted") => nSleeps = MaxTries

\* C27 witness: the sixth rate-limited response carries no hint, the sleep
\* of 32 follows it, the backoff is capped at 60 and the call fails
C27_Witness ==
    /\ g_pc = "done" /\ g_result = "exhausted"
    /\ ~HasResetHint(lastReset)
    /\ nSleeps = MaxTries /\ lastSleep = 32 /\ backoff = BackoffCap

(***************************************************************************)
(* Claims about encode_path_preserving_segments                            *)
(***************************************************************************)
\* the number of separators of a text
Slashes(s) == Cardinality({i \in 1..Len(s) : s[i] = "/"})

\* C24: the path sent does not depend on the form the path arrives in: the
\* path itself, its percent-encoded form and every partly encoded form give
\* the same result, encoding the result again changes nothing, and the
\* separators are kept as they are, so the number of segments is kept.
C24_EncodingIgnoresInputForm ==
    (e_pc = "done")
       => /\ e_sent = EncodePathPreservingSegments(e_text)
          /\ EncodePathPreservingSegments(e_sent) = e_sent
          /\ Len(Split(e_sent)) = Len(Split(e_arg))
          /\ Slashes(e_sent) = Slashes(e_arg)

\* C29: a path held as real text, decoded by parse_repo_url or returned by
\* the tree listing or the content probe, is sent in a form whose percent-
\* decoding is that text again, also when a name holds a '%' followed by two
\* hex digits.
C29_SentPathDecodesToText ==
    (e_pc = "done" /\ e_form \in {"listed", "parsed"})
       => DecodedSegments(e_sent) = e_text

(***************************************************************************)
(* Claims about collect_sources_with_single_main                           *)
(***************************************************************************)
\* the .c files the compilation is to take besides the designated one
OtherSources ==
    { f.path : f \in { g \in s_dir :
                         /\ EndsWithDotC(g.path)
                         /\ g.path # AbsPath(s_main)
                         /\ ~g.main
                         /\ IF s_recursive THEN ~ThroughDotDir(g.path)
                                           ELSE TopName(g.path) = g.path } }

\* C26: without the designated file under the source directory the result
\* is empty; otherwise it is the designated file followed by exactly the
\* other .c files of the directory (of every subdirectory not named with a
\* leading dot when recursive) whose text holds no int main, each once.
C26_DesignatedMainAndOtherSources ==
    (s_pc = "done")
       => IF ~IsSrcFile(s_dir, AbsPath(s_main)) THEN selected = <<>>
          ELSE /\ selected[1] = AbsPath(s_main)
               /\ {selected[i] : i \in 2..Len(selected)} = OtherSources
               /\ Len(selected) = 1 + Cardinality(OtherSources)
               /\ \A i \in 2..Len(selected) : ~IsMainFile(s_dir, selected[i])

(***************************************************************************)
(* Claims about parse_repo_url                                             *)
(***************************************************************************)
\* the reference of the canonical url of a shape
ExpectedRef(shape) ==
    CASE shape = "blob" ->
           RepoRef(<<"o">>, <<"r">>, TRUE, <<"br">>, <<"src", "%", "/", "Main", ".c">>)
      [] shape = "raw" ->
           RepoRef(<<"o">>, <<"r">>, TRUE, <<"br">>, <<"src", "/", "main", ".c">>)
      [] shape = "tree" -> RepoRef(<<"o">>, <<"r">>, TRUE, <<"br">>, <<"src">>)
      [] shape = "treeroot" -> RepoRef(<<"o">>, <<"r">>, TRUE, <<"br">>, <<>>)
      [] shape = "repo" -> RepoRef(<<"o">>, <<"r">>, FALSE, NoBranch, <<>>)

\* C22: for each supported shape, every way of writing the url (full-width
\* characters, no scheme, a query or fragment, scheme or host in another
\* case, and for a repository root the scp and .git forms) gives the owner,
\* repository, branch and path of the canonical https url; a repository
\* root gives no branch and the empty path.
C22_WritingsGiveTheCanonicalReference ==
    (u_pc = "done" /\ u_shape \in UrlShapes)
       => /\ parsed = ParseRepoUrlText(Canonical(u_shape))
          /\ parsed = ExpectedRef(u_shape)
          /\ (u_shape = "repo") => (~parsed.has_branch /\ parsed.path = <<>>)

\* C22 witness: a repository root written in the scp form with .git and a
\* full-width colon, parsed to owner and repository without a branch
C22_Witness ==
    /\ u_pc = "done" /\ u_shape = "repo"
    /\ u_in = <<"git@", "github", "~.", "com", "~:", "o", "~/", "r", ".git">>
    /\ parsed = RepoRef(<<"o">>, <<"r">>, FALSE, NoBranch, <<>>)

\* the host of the url as urlsplit reads it, in lower case
HostRead == Netloc(UrlSplit(Completed(u_in)))

\* C23: the failure is 'unsupported shape' exactly when the host of the url
\* is github.com or raw.githubusercontent.com and no shape matches, and
\* 'unrecognized' exactly when the host is neither; a url with another host
\* is never 'unsupported shape'.
C23_FailureTellsHostFromShape ==
    (u_pc = "done")
       => /\ (parsed.kind = "unsupported")
                <=> (HostRead \in {GithubHost, RawHost} /\ parsed.kind # "ok")
          /\ (parsed.kind = "unrecognized") <=> (HostRead \notin {GithubHost, RawHost})

\* C25: for the same roster entry, configuration and remote responses, the
\* sidecar FetchService leaves for a student has the keys and the status
\* value of the sidecar main of fetch_and_stage.py leaves, and .main_filename
\* has the same content
C25_ServicePreservesLegacySidecar ==
    StudentEnded =>
        /\ DOMAIN meta = DOMAIN l_meta
        /\ ("status" \in DOMAIN meta) => meta["status"] = l_meta["status"]
        /\ hint = l_hint

\* the status and failure_reason keys of a sidecar
StatusKeys(m) == [key \in (DOMAIN m) \cap {"status", "failure_reason"} |-> m[key]]

\* C30: at the end of a student's processing the entry point written to
\* .main_filename and the status keys of the sidecar are those of the same
\* processing started on an empty staging directory (the outcome is computed
\* from rep_saved and paths, which both runs share)
C30_EarlierRunLeavesNoInfluence ==
    StudentEnded =>
        /\ hint = t_hint
        /\ StatusKeys(meta) = StatusKeys(t_meta)

====
